---- MODULE Spec2Model ----
(***************************************************************************)
(* Model of the local draft-review store (review_storage.rs), its log      *)
(* mirror (write_log) and the submission pipeline (cmd_submit_local_review *)
(* in lib.rs, create_review_with_comments in github.rs).                   *)
(*                                                                         *)
(* Conventions.                                                            *)
(*  - Option<T> is a sequence of length <= 1: None == <<>>, Some(x) == <<x>>*)
(*  - text is a TLA+ string; a local folder path is a sequence of one      *)
(*    character strings, because get_log_path works on its characters.     *)
(*  - a file's content is the sequence of its lines (each a string).       *)
(*  - timestamps (Utc::now().to_rfc3339()) are integers printed with       *)
(*    ToString: the clock advances by one with every command issued, and   *)
(*    the model follows runs of at most MaxOps commands (MaxFaultOps where *)
(*    I/O and database operations may fail, MaxLocalOps in local folder    *)
(*    mode, MaxStoreOps for the store commands on two reviews, MaxLogOps   *)
(*    for the comment commands with every side value, MaxReplyOps with     *)
(*    threaded replies, MaxTitleOps where the title fetch may fail,        *)
(*    MaxRestartOps for start_review on an existing row).                  *)
(*  - commands are async and run on a multi-threaded runtime: SpecOverlap  *)
(*    lets add_comment run between the steps of a submission (at most      *)
(*    MaxOverlapOps commands), SpecCalls splits the storage calls of two   *)
(*    tasks at their lock sections and file operations (MaxCallOps calls). *)
(*  - SpecPaths runs reviews of several keys and folders (MaxPathOps       *)
(*    commands), SpecIsolation the store commands and the submission on    *)
(*    two pull requests (MaxIsolationOps commands).                        *)
(*  - the diff position resolver is a pure function: SpecDiff applies it   *)
(*    once to a patch of at most MaxDiffLines lines after the headers.     *)
(*  - the created_at / updated_at columns of review_comments are written   *)
(*    but never read by a query condition, an ordering or the log          *)
(*    rendering; the comment rows of the model carry the other columns.    *)
(*  - whether SQLite enforces the FOREIGN KEY ... ON DELETE CASCADE clause  *)
(*    depends on the build (the code never issues PRAGMA foreign_keys):    *)
(*    foreign_keys is fixed nondeterministically by Init.                  *)
(***************************************************************************)
EXTENDS Integers, Sequences, FiniteSets, TLC

VARIABLES
    foreign_keys,      \* does this build of SQLite enforce foreign keys
    now,               \* the wall clock: the number of commands issued so far
    review_metadata,   \* table review_metadata: a set of rows
    review_comments,   \* table review_comments: a set of rows
    next_rowid,        \* AUTOINCREMENT counter of review_comments.id
    files,             \* review_logs directory: file name -> lines
    ret,               \* what the last finished command returned
    sub,               \* the submission pass in flight (cmd_submit_local_review)
    posted,            \* the remote: POSTs attempted by the current pass, in order
    assigned,          \* history: key -> the log indices given to its rows
    first_commit,      \* history: key -> commit id of the call that created its row
    sent,              \* history: log entries of accepted, hard-deleted comments
    calls,             \* the storage calls in flight, one per caller
    accepted           \* history: ids of the comments the remote accepted

vars == <<foreign_keys, now, review_metadata, review_comments, next_rowid,
          files, ret, sub, posted, assigned, first_commit, sent, calls,
          accepted>>

-----------------------------------------------------------------------------
(* Bounds *)

MaxComments == 2
MaxIndex == 1
MaxOps == 4
MaxFaultOps == 3
MaxLocalOps == 4
MaxStoreOps == 4
MaxLogOps == 3
MaxDiffLines == 3
MaxReplyOps == 3
MaxTitleOps == 3
MaxRestartOps == 4
MaxOverlapOps == 3
MaxCallOps == 3
MaxPathOps == 3
MaxIsolationOps == 3

-----------------------------------------------------------------------------
(* Option values *)

None == <<>>
Some(x) == <<x>>
IsSome(o) == o /= <<>>
Unwrap(o) == o[1]

-----------------------------------------------------------------------------
(* Inputs *)

Key(o, r, n) == [owner |-> o, repo |-> r, pr_number |-> n]
K1 == Key("o", "r", 1)
Keys == {K1}

\* two pull requests of one repository
K2 == Key("o", "r", 2)
TwoKeys == {K1, K2}

\* local folder mode: the one key the application uses for it, and the folders
\* /w/d and /w/e
KL == Key("__local__", "local", 1)
LocalFolders == {Some(<<"/", "w", "/", "d">>), Some(<<"/", "w", "/", "e">>)}

\* reviews whose names meet in a log file name: pull request 1 of a-b/c and of
\* a/b-c, a second pull request of a/b-c, and two local folder reviews
PA == Key("a-b", "c", 1)
PB == Key("a", "b-c", 1)
PB2 == Key("a", "b-c", 2)
KL2 == Key("__local__", "local", 2)
PathKeys == {PA, PB, PB2, KL, KL2}

Commits == {"c1", "c2"}
ReviewBodies == {None}
Folders == {None}
Titles == {""}

\* file paths in byte order (SQLite's BINARY collation)
PathsSorted == <<"a.rs", "b.rs">>
Paths == {PathsSorted[i] : i \in 1..Len(PathsSorted)}
CommentBodies == {"y"}
\* update_comment_file_path is called with: old_path, new_path
Renames == {<<"a.rs", "b.rs">>, <<"b.rs", "a.rs">>}

\* what cmd_local_add_comment is called with: file_path, line_number
\* (None: no line selected), side, body, commit_id
CommentInputs ==
    { <<"a.rs", None, "LEFT", "x", "c1">>,
      <<"b.rs", Some(1), "RIGHT", "x", "c2">> }

\* the side values a command is given: the two sides of a diff, and the first
\* written in lower case
Sides == {"LEFT", "RIGHT", "left"}

\* comments on the whole file and on lines 1 and 2, on every side
LogInputs ==
    { <<"a.rs", line, side, "x", "c1">> :
          line \in {None, Some(1), Some(2)}, side \in Sides }

\* a line of text, where the code looks at its characters, is the sequence of
\* its characters
HunkHeader1 == <<"@", "@", " ", "-", "1", ",", "3", " ", "+", "1", ",", "4", " ", "@", "@">>
HunkHeader2 == <<"@", "@", " ", "-", "1", "0", ",", "2", " ", "+", "1", "2", ",", "3", " ", "@", "@", " ", "f", "n">>
ContextLine == <<" ", "c">>
DeletionLine == <<"-", "d">>
AdditionLine == <<"+", "a">>

\* the diff of test_diff_position_counting
ExampleDiff ==
    << HunkHeader1,
       <<" ", "l", "i", "n", "e", "1">>,
       <<" ", "l", "i", "n", "e", "2">>,
       <<"+", "n", "e", "w">>,
       <<" ", "l", "i", "n", "e", "3">> >>

\* the sequences over S of length at most n
SeqsUpTo(S, n) == UNION {[1..m -> S] : m \in 0..n}

DiffBodies == SeqsUpTo({ContextLine, DeletionLine, AdditionLine}, MaxDiffLines)

\* patches of one hunk, and of two hunks, with at most MaxDiffLines lines
\* after the headers
Diffs ==
    {ExampleDiff}
    \cup {<<HunkHeader1>> \o b : b \in DiffBodies}
    \cup {<<HunkHeader1>> \o b[1] \o <<HunkHeader2>> \o b[2] :
              b \in {c \in DiffBodies \X DiffBodies :
                         Len(c[1]) + Len(c[2]) <= MaxDiffLines}}

Positions == 0..(MaxDiffLines + 1)
DiffSides == {"LEFT", "RIGHT"}

\* how the remote answers one POST: accepted, rejected (ensure_success fails),
\* or the request itself fails
PostOutcomes == {"ok", "rejected", "network"}

-----------------------------------------------------------------------------
(* Text helpers *)

RECURSIVE Join(_)
\* the string made of a sequence of one-character strings
Join(chars) == IF chars = <<>> THEN "" ELSE Head(chars) \o Join(Tail(chars))

RECURSIVE TrimEnd(_)
TrimEnd(chars) ==
    IF chars /= <<>> /\ chars[Len(chars)] = " "
    THEN TrimEnd(SubSeq(chars, 1, Len(chars) - 1)) ELSE chars

RECURSIVE TrimStart(_)
TrimStart(chars) ==
    IF chars /= <<>> /\ Head(chars) = " " THEN TrimStart(Tail(chars)) ELSE chars

\* str::trim
Trim(chars) == TrimStart(TrimEnd(chars))

RECURSIVE StripSlashes(_)
StripSlashes(chars) ==
    IF chars /= <<>> /\ chars[Len(chars)] = "/"
    THEN StripSlashes(SubSeq(chars, 1, Len(chars) - 1)) ELSE chars

\* Path::file_name on a '/'-separated path: the last component, None when
\* there is none or when it is ".."
file_name(path) ==
    LET p == StripSlashes(path)
        slashes == {i \in 1..Len(p) : p[i] = "/"}
        start == IF slashes = {} THEN 1
                 ELSE (CHOOSE i \in slashes : \A j \in slashes : j <= i) + 1
        name == SubSeq(p, start, Len(p))
    IN IF name = <<>> \/ name = <<".", ".">> THEN None ELSE Some(name)

ReservedChars == {"\\", "/", ":", "*", "?", "\"", "<", ">", "|"}

\* the character map of get_log_path
Sanitize(chars) ==
    [i \in 1..Len(chars) |-> IF chars[i] \in ReservedChars THEN "-" ELSE chars[i]]

-----------------------------------------------------------------------------
(* Log file names *)

is_local_folder(owner, repo) == owner = "__local__" /\ repo = "local"

\* a file name that leaves out the pull request number: the variant of
\* LogBase that C34 must tell from the code
LogBase_without_pr(owner, repo, pr_number, local_folder) ==
    IF is_local_folder(owner, repo) THEN "local-folder" ELSE owner \o "-" \o repo

\* the file name without its index suffix and extension
LogBase(owner, repo, pr_number, local_folder) ==
    IF is_local_folder(owner, repo)
    THEN LET folder_name ==
                 IF IsSome(local_folder) /\ IsSome(file_name(Unwrap(local_folder)))
                 THEN Unwrap(file_name(Unwrap(local_folder)))
                 ELSE <<"l", "o", "c", "a", "l", "-", "f", "o", "l", "d", "e", "r">>
             safe == Trim(Sanitize(folder_name))
         IN IF safe = <<>> THEN "local-folder" ELSE Join(safe)
    ELSE owner \o "-" \o repo \o "-" \o ToString(pr_number)

LogName(base, index) ==
    IF index = 0 THEN base \o ".log"
    ELSE base \o "-" \o ToString(index) \o ".log"

get_log_path(owner, repo, pr_number, index, local_folder) ==
    LogName(LogBase(owner, repo, pr_number, local_folder), index)

RECURSIVE NextFree(_, _, _)
NextFree(existing, base, index) ==
    IF LogName(base, index) \notin existing THEN index
    ELSE NextFree(existing, base, index + 1)

\* an index search that always answers 0: the variant of find_next_log_index
\* that C10 must tell from the code
find_next_log_index_zero(existing, owner, repo, pr_number, local_folder) == 0

\* the first index whose file does not exist on disk
find_next_log_index(existing, owner, repo, pr_number, local_folder) ==
    NextFree(existing, LogBase(owner, repo, pr_number, local_folder), 0)

-----------------------------------------------------------------------------
(* Queries *)

KeyOf(row) == Key(row.owner, row.repo, row.pr_number)

\* the rows of review_metadata with the key (the primary key allows one)
MetaRows(meta, k) == {m \in meta : KeyOf(m) = k}

\* SELECT ... FROM review_metadata WHERE key, .optional()
get_review_metadata(meta, k) ==
    IF MetaRows(meta, k) = {} THEN None
    ELSE Some(CHOOSE m \in MetaRows(meta, k) : TRUE)

RECURSIVE get_all_review_metadata(_)
\* SELECT ... FROM review_metadata: every row, in an order the query leaves
\* open
get_all_review_metadata(meta) ==
    IF meta = {} THEN <<>>
    ELSE LET first == CHOOSE m \in meta : TRUE
         IN <<first>> \o get_all_review_metadata(meta \ {first})

PathRank(p) == CHOOSE i \in 1..Len(PathsSorted) : PathsSorted[i] = p

\* ORDER BY file_path, line_number; rows that tie come in rowid order
RowBefore(a, b) ==
    \/ PathRank(a.file_path) < PathRank(b.file_path)
    \/ /\ a.file_path = b.file_path
       /\ \/ a.line_number < b.line_number
          \/ a.line_number = b.line_number /\ a.id < b.id

RECURSIVE OrderRows(_)
OrderRows(rows) ==
    IF rows = {} THEN <<>>
    ELSE LET first == CHOOSE r \in rows : \A q \in rows \ {r} : RowBefore(r, q)
         IN <<first>> \o OrderRows(rows \ {first})

\* the comment rows of the key, soft-deleted ones included (write_log's query)
all_comments(comments, k) == OrderRows({c \in comments : KeyOf(c) = k})

\* the query without its deleted = 0 condition: the variant of get_comments
\* that C14 must tell from the code
get_comments_with_deleted(comments, k) ==
    OrderRows({c \in comments : KeyOf(c) = k})

\* the active comment rows of the key
get_comments(comments, k) ==
    OrderRows({c \in comments : KeyOf(c) = k /\ ~c.deleted})

-----------------------------------------------------------------------------
(* The store as a value, and results *)

\* the durable state: both tables, the AUTOINCREMENT counter, the log directory
St == [meta |-> review_metadata, comments |-> review_comments,
       rowid |-> next_rowid, files |-> files, fk |-> foreign_keys]

\* AppResult: the store after the call, Ok/Err, the value or the error text
Ok(S, v) == [S |-> S, ok |-> TRUE, val |-> v]
Err(S, e) == [S |-> S, ok |-> FALSE, val |-> e]

-----------------------------------------------------------------------------
(* LogMirror: write_log *)

\* str::to_ascii_uppercase on the side values the commands are given
to_ascii_uppercase(s) ==
    CASE s = "left" -> "LEFT"
      [] s = "right" -> "RIGHT"
      [] OTHER -> s

eq_ignore_ascii_case(a, b) == to_ascii_uppercase(a) = to_ascii_uppercase(b)

\* a rendering that keeps the side suffix on a file-level comment: the variant
\* of CommentLine that C13 must tell from the code
CommentLine_suffix_on_file_level(c) ==
    LET line_label == IF c.line_number = 0 THEN "Overall"
                      ELSE "Line " \o ToString(c.line_number)
        side_label == IF eq_ignore_ascii_case(c.side, "LEFT")
                      THEN " (ORIGINAL)" ELSE ""
        deleted_prefix == IF c.deleted THEN "DELETED - " ELSE ""
    IN "    " \o deleted_prefix \o line_label \o side_label \o ": " \o c.body

CommentLine(c) ==
    LET is_file_level == c.line_number = 0
        line_label == IF is_file_level THEN "Overall"
                      ELSE "Line " \o ToString(c.line_number)
        side_label == IF ~is_file_level /\ eq_ignore_ascii_case(c.side, "LEFT")
                      THEN " (ORIGINAL)" ELSE ""
        deleted_prefix == IF c.deleted THEN "DELETED - " ELSE ""
    IN "    " \o deleted_prefix \o line_label \o side_label \o ": " \o c.body

RECURSIVE CommentLines(_, _)
\* the body of the log: a blank line and "<path>:" before each new file group
CommentLines(cs, current_file) ==
    IF cs = <<>> THEN <<>>
    ELSE LET c == Head(cs)
             heading == IF current_file /= Some(c.file_path)
                        THEN <<"", c.file_path \o ":">> ELSE <<>>
         IN heading \o <<CommentLine(c)>>
            \o CommentLines(Tail(cs), Some(c.file_path))

HeaderLines(m, pr_title, active_count) ==
    LET local == is_local_folder(m.owner, m.repo)
        pr == ToString(m.pr_number)
        ident ==
            IF local
            THEN <<"# Review",
                   "# Local folder: " \o
                       (IF IsSome(m.local_folder)
                        THEN Join(Unwrap(m.local_folder)) ELSE "")>>
            ELSE <<IF pr_title = "" THEN "# Review for PR #" \o pr
                   ELSE "# Review for PR #" \o pr \o ": " \o pr_title,
                   "# URL: https://github.com/" \o m.owner \o "/" \o m.repo
                       \o "/pull/" \o pr,
                   "# Repository: " \o m.owner \o "/" \o m.repo>>
    IN ident
       \o <<"# Created: " \o ToString(m.created_at)>>
       \o (IF local THEN <<>> ELSE <<"# Commit: " \o m.commit_id>>)
       \o (IF IsSome(m.body) THEN <<"# Review Body: " \o Unwrap(m.body)>> ELSE <<>>)
       \o <<"# Total Comments: " \o ToString(active_count), "">>

\* a rendering whose count includes the soft-deleted comments: the variant of
\* Render that C35 must tell from the code
Render_counts_deleted(m, cs, pr_title) ==
    HeaderLines(m, pr_title, Len(cs)) \o CommentLines(cs, None)

\* the full rendering of one review
Render(m, cs, pr_title) ==
    HeaderLines(m, pr_title, Len(SelectSeq(cs, LAMBDA c : ~c.deleted)))
    \o CommentLines(cs, None)

\* a log write that gives up when the title could not be fetched: the variant
\* of write_log that C24 must tell from the code
write_log_needs_title(S, k, title, io_ok) ==
    LET found == get_review_metadata(S.meta, k)
    IN IF ~IsSome(found) THEN Err(S, "Query returned no rows")
       ELSE IF title = "" THEN Err(S, "Failed to fetch PR title")
       ELSE
         LET metadata == Unwrap(found)
             log_path == get_log_path(k.owner, k.repo, k.pr_number,
                                      metadata.log_file_index, metadata.local_folder)
             content == Render(metadata, all_comments(S.comments, k), title)
         IN IF ~io_ok THEN Err(S, "io error")
            ELSE Ok([S EXCEPT !.files = (log_path :> content) @@ S.files], None)

\* fetch_pr_title(...).unwrap_or_else(String::new): title is what the remote
\* answered, "" when the fetch failed; local folder mode does not fetch
write_log(S, k, title, io_ok) ==
    LET found == get_review_metadata(S.meta, k)
    IN IF ~IsSome(found) THEN Err(S, "Query returned no rows")
       ELSE
         LET metadata == Unwrap(found)
             comments == all_comments(S.comments, k)
             log_path == get_log_path(k.owner, k.repo, k.pr_number,
                                      metadata.log_file_index, metadata.local_folder)
             pr_title == IF is_local_folder(k.owner, k.repo) THEN "" ELSE title
             content == Render(metadata, comments, pr_title)
         IN IF ~io_ok THEN Err(S, "io error")
            ELSE Ok([S EXCEPT !.files = (log_path :> content) @@ S.files], None)

-----------------------------------------------------------------------------
(* DraftStore *)

\* a get-or-create in which the commit id of the later call wins: the variant
\* of start_review that C1 must tell from the code
start_review_last_wins(S, k, commit_id, body, local_folder, t) ==
    LET rows == {m \in S.meta : KeyOf(m) = k}
        row == [owner |-> k.owner, repo |-> k.repo,
                pr_number |-> k.pr_number, commit_id |-> commit_id,
                body |-> body, local_folder |-> local_folder,
                created_at |-> IF rows = {} THEN t
                               ELSE (CHOOSE m \in rows : TRUE).created_at,
                log_file_index |->
                    IF rows = {}
                    THEN NextFree(DOMAIN S.files,
                                  LogBase(k.owner, k.repo, k.pr_number, local_folder), 0)
                    ELSE (CHOOSE m \in rows : TRUE).log_file_index]
    IN Ok([S EXCEPT !.meta = (S.meta \ rows) \cup {row}], row)

\* a get-or-create that stores the local_folder argument also when there is
\* none: the variant of start_review that C25 must tell from the code
start_review_clears_folder(S, k, commit_id, body, local_folder, t) ==
    LET rows == {m \in S.meta : KeyOf(m) = k}
    IN IF rows /= {}
       THEN LET metadata == CHOOSE m \in rows : TRUE
                updated == [metadata EXCEPT !.local_folder = local_folder]
            IN Ok([S EXCEPT !.meta = (S.meta \ {metadata}) \cup {updated}], updated)
       ELSE LET row == [owner |-> k.owner, repo |-> k.repo,
                        pr_number |-> k.pr_number, commit_id |-> commit_id,
                        body |-> body, local_folder |-> local_folder,
                        created_at |-> t,
                        log_file_index |->
                            NextFree(DOMAIN S.files,
                                     LogBase(k.owner, k.repo, k.pr_number,
                                             local_folder), 0)]
            IN Ok([S EXCEPT !.meta = S.meta \cup {row}], row)

\* a create that does not look for the row of the key: the variant of
\* start_review that C23 must tell from the code
start_review_always_insert(S, k, commit_id, body, local_folder, t) ==
    LET row == [owner |-> k.owner, repo |-> k.repo,
                pr_number |-> k.pr_number, commit_id |-> commit_id,
                body |-> body, local_folder |-> local_folder,
                created_at |-> t,
                log_file_index |->
                    NextFree(DOMAIN S.files,
                             LogBase(k.owner, k.repo, k.pr_number, local_folder), 0)]
    IN Ok([S EXCEPT !.meta = S.meta \cup {row}], row)

\* get-or-create; t is Utc::now()
start_review(S, k, commit_id, body, local_folder, t) ==
    LET existing == get_review_metadata(S.meta, k)
    IN IF IsSome(existing)
       THEN LET metadata == Unwrap(existing)
            IN IF IsSome(local_folder) /\ metadata.local_folder /= local_folder
               THEN LET updated == [metadata EXCEPT !.local_folder = local_folder]
                    IN Ok([S EXCEPT !.meta = (S.meta \ {metadata}) \cup {updated}],
                          updated)
               ELSE Ok(S, metadata)
       ELSE LET row == [owner |-> k.owner, repo |-> k.repo,
                        pr_number |-> k.pr_number, commit_id |-> commit_id,
                        body |-> body, local_folder |-> local_folder,
                        created_at |-> t,
                        log_file_index |->
                            find_next_log_index(DOMAIN S.files, k.owner, k.repo,
                                                k.pr_number, local_folder)]
            IN Ok([S EXCEPT !.meta = S.meta \cup {row}], row)

\* an update that moves the comments of the review to the new commit as well:
\* the variant of update_review_commit that C26 must tell from the code
update_review_commit_with_comments(S, k, new_commit_id) ==
    LET existing == get_review_metadata(S.meta, k)
    IN IF ~IsSome(existing)
       THEN Err(S, "No review found")
       ELSE LET updated == [Unwrap(existing) EXCEPT !.commit_id = new_commit_id]
            IN Ok([S EXCEPT !.meta = (S.meta \ {Unwrap(existing)}) \cup {updated},
                            !.comments =
                                {IF KeyOf(c) = k
                                 THEN [c EXCEPT !.commit_id = new_commit_id]
                                 ELSE c : c \in S.comments}],
                  updated)

\* an update that inserts the row it does not find: the variant of
\* update_review_commit that C15 must tell from the code
update_review_commit_upsert(S, k, new_commit_id) ==
    LET existing == get_review_metadata(S.meta, k)
    IN IF ~IsSome(existing)
       THEN LET row == [owner |-> k.owner, repo |-> k.repo,
                        pr_number |-> k.pr_number, commit_id |-> new_commit_id,
                        body |-> None, local_folder |-> None, created_at |-> 0,
                        log_file_index |-> 0]
            IN Err([S EXCEPT !.meta = S.meta \cup {row}], "No review found")
       ELSE LET updated == [Unwrap(existing) EXCEPT !.commit_id = new_commit_id]
            IN Ok([S EXCEPT !.meta = (S.meta \ {Unwrap(existing)}) \cup {updated}],
                  updated)

update_review_commit(S, k, new_commit_id) ==
    LET existing == get_review_metadata(S.meta, k)
    IN IF ~IsSome(existing)
       THEN Err(S, "No review found")
       ELSE LET updated == [Unwrap(existing) EXCEPT !.commit_id = new_commit_id]
            IN Ok([S EXCEPT !.meta = (S.meta \ {Unwrap(existing)}) \cup {updated}],
                  updated)

\* an insert that is taken back when the log cannot be written: the variant
\* of add_comment that C31 must tell from the code
add_comment_rollback(S, k, file_path, line_number, side, body, commit_id, in_reply_to_id, title, io_ok) ==
    IF S.fk /\ ~IsSome(get_review_metadata(S.meta, k))
    THEN Err(S, "FOREIGN KEY constraint failed")
    ELSE LET comment == [id |-> S.rowid, owner |-> k.owner, repo |-> k.repo,
                         pr_number |-> k.pr_number, file_path |-> file_path,
                         line_number |-> line_number, side |-> side,
                         body |-> body, commit_id |-> commit_id,
                         deleted |-> FALSE, in_reply_to_id |-> in_reply_to_id]
             S1 == [S EXCEPT !.comments = S.comments \cup {comment},
                             !.rowid = S.rowid + 1]
             logged == write_log(S1, k, title, io_ok)
         IN IF logged.ok THEN Ok(logged.S, comment) ELSE Err(S, logged.val)

\* the INSERT fails on a build that enforces the foreign key when the key has
\* no metadata row; otherwise the row is committed before the log is written
add_comment(S, k, file_path, line_number, side, body, commit_id, in_reply_to_id, title, io_ok) ==
    IF S.fk /\ ~IsSome(get_review_metadata(S.meta, k))
    THEN Err(S, "FOREIGN KEY constraint failed")
    ELSE LET comment == [id |-> S.rowid, owner |-> k.owner, repo |-> k.repo,
                         pr_number |-> k.pr_number, file_path |-> file_path,
                         line_number |-> line_number, side |-> side,
                         body |-> body, commit_id |-> commit_id,
                         deleted |-> FALSE, in_reply_to_id |-> in_reply_to_id]
             S1 == [S EXCEPT !.comments = S.comments \cup {comment},
                             !.rowid = S.rowid + 1]
             logged == write_log(S1, k, title, io_ok)
         IN IF logged.ok THEN Ok(logged.S, comment) ELSE logged

\* an update that brings a soft-deleted comment back: the variant of
\* update_comment that C36 must tell from the code
update_comment_undeletes(S, comment_id, new_body, title, io_ok) ==
    LET rows == {c \in S.comments : c.id = comment_id}
    IN IF rows = {} THEN Err(S, "Query returned no rows")
       ELSE LET old == CHOOSE c \in rows : TRUE
                comment == [old EXCEPT !.body = new_body, !.deleted = FALSE]
                S1 == [S EXCEPT !.comments = (S.comments \ {old}) \cup {comment}]
                logged == write_log(S1, KeyOf(comment), title, io_ok)
            IN IF logged.ok THEN Ok(logged.S, comment) ELSE logged

update_comment(S, comment_id, new_body, title, io_ok) ==
    LET rows == {c \in S.comments : c.id = comment_id}
    IN IF rows = {} THEN Err(S, "Query returned no rows")
       ELSE LET old == CHOOSE c \in rows : TRUE
                comment == [old EXCEPT !.body = new_body]
                S1 == [S EXCEPT !.comments = (S.comments \ {old}) \cup {comment}]
                logged == write_log(S1, KeyOf(comment), title, io_ok)
            IN IF logged.ok THEN Ok(logged.S, comment) ELSE logged

\* a delete that removes the row before the log is rewritten: the variant of
\* delete_comment that C6 must tell from the code
delete_comment_hard(S, comment_id, title, io_ok) ==
    LET rows == {c \in S.comments : c.id = comment_id}
    IN IF rows = {} THEN Err(S, "Query returned no rows")
       ELSE LET old == CHOOSE c \in rows : TRUE
                S1 == [S EXCEPT !.comments = S.comments \ {old}]
                logged == write_log(S1, KeyOf(old), title, io_ok)
            IN IF logged.ok THEN Ok(logged.S, None) ELSE logged

\* soft delete
delete_comment(S, comment_id, title, io_ok) ==
    LET rows == {c \in S.comments : c.id = comment_id}
    IN IF rows = {} THEN Err(S, "Query returned no rows")
       ELSE LET old == CHOOSE c \in rows : TRUE
                S1 == [S EXCEPT !.comments =
                           (S.comments \ {old}) \cup {[old EXCEPT !.deleted = TRUE]}]
                logged == write_log(S1, KeyOf(old), title, io_ok)
            IN IF logged.ok THEN Ok(logged.S, None) ELSE logged

\* a hard delete that rewrites the log of the comment's review afterwards: the
\* variant of delete_comment_preserve_log that C7 must tell from the code
delete_comment_rewrite_log(S, comment_id, db_ok) ==
    LET rows == {c \in S.comments : c.id = comment_id}
        S1 == [S EXCEPT !.comments = S.comments \ rows]
    IN IF ~db_ok THEN Err(S, "database error")
       ELSE IF rows = {} THEN Ok(S1, None)
       ELSE Ok(write_log(S1, KeyOf(CHOOSE c \in rows : TRUE), "", TRUE).S, None)

\* a sweep statement that reports success and leaves the row: the variant of
\* delete_comment_preserve_log that C30 must tell from the code
delete_comment_preserve_log_keeps_row(S, comment_id, db_ok) ==
    IF ~db_ok THEN Err(S, "database error") ELSE Ok(S, None)

\* hard delete; db_ok = FALSE is the DELETE statement failing
delete_comment_preserve_log(S, comment_id, db_ok) ==
    IF ~db_ok THEN Err(S, "database error")
    ELSE Ok([S EXCEPT !.comments = {c \in S.comments : c.id /= comment_id}], None)

\* a rename that ignores the key and the deleted flag: the variant of
\* update_comment_file_path that C12 must tell from the code
update_comment_file_path_any_row(S, k, old_path, new_path, title, io_ok) ==
    LET hit == {c \in S.comments : c.file_path = old_path}
        affected == Cardinality(hit)
        S1 == [S EXCEPT !.comments =
                   (S.comments \ hit)
                   \cup {[c EXCEPT !.file_path = new_path] : c \in hit}]
    IN IF affected > 0
       THEN LET logged == write_log(S1, k, title, io_ok)
            IN IF logged.ok THEN Ok(logged.S, affected) ELSE logged
       ELSE Ok(S1, affected)

\* a rename without the key in its WHERE clause: the variant of
\* update_comment_file_path that C37 must tell from the code
update_comment_file_path_every_review(S, k, old_path, new_path, title, io_ok) ==
    LET hit == {c \in S.comments : c.file_path = old_path /\ ~c.deleted}
        affected == Cardinality(hit)
        S1 == [S EXCEPT !.comments =
                   (S.comments \ hit)
                   \cup {[c EXCEPT !.file_path = new_path] : c \in hit}]
    IN IF affected > 0
       THEN LET logged == write_log(S1, k, title, io_ok)
            IN IF logged.ok THEN Ok(logged.S, affected) ELSE logged
       ELSE Ok(S1, affected)

update_comment_file_path(S, k, old_path, new_path, title, io_ok) ==
    LET hit == {c \in S.comments :
                    KeyOf(c) = k /\ c.file_path = old_path /\ ~c.deleted}
        affected == Cardinality(hit)
        S1 == [S EXCEPT !.comments =
                   (S.comments \ hit)
                   \cup {[c EXCEPT !.file_path = new_path] : c \in hit}]
    IN IF affected > 0
       THEN LET logged == write_log(S1, k, title, io_ok)
            IN IF logged.ok THEN Ok(logged.S, affected) ELSE logged
       ELSE Ok(S1, affected)

\* a DELETE that leaves the comment rows whatever the build: the variant of
\* delete_metadata that C33 must tell from the code
delete_metadata_keeps_comments(S, k) ==
    [S EXCEPT !.meta = {m \in S.meta : KeyOf(m) /= k}]

\* DELETE FROM review_metadata WHERE key; the comment rows of the key go with
\* it only where the foreign key (ON DELETE CASCADE) is enforced
delete_metadata(S, k) ==
    [S EXCEPT !.meta = {m \in S.meta : KeyOf(m) /= k},
              !.comments = IF S.fk THEN {c \in S.comments : KeyOf(c) /= k}
                           ELSE S.comments]

\* a terminal operation that writes its header after the log's content: the
\* variant of terminate_review that C9 must tell from the code
terminate_review_header_last(S, k, marker, t, rd_ok, wr_ok) ==
    LET rows == {m \in S.meta : KeyOf(m) = k}
    IN IF rows = {} THEN Ok(S, None)
       ELSE
         LET meta == CHOOSE m \in rows : TRUE
             log_path == get_log_path(k.owner, k.repo, k.pr_number,
                                      meta.log_file_index, meta.local_folder)
             header == <<marker \o " at " \o ToString(t),
                         "# Original review started at " \o ToString(meta.created_at),
                         "">>
         IN IF log_path \in DOMAIN S.files
            THEN IF ~wr_ok THEN Err(S, "io error")
                 ELSE LET existing_content ==
                              IF rd_ok THEN S.files[log_path] ELSE <<>>
                          S1 == [S EXCEPT !.files =
                                     (log_path :> (existing_content \o header))
                                     @@ S.files]
                      IN Ok(delete_metadata(S1, k), None)
            ELSE Ok(delete_metadata(S, k), None)

\* a terminal operation that, finding no row, puts its header on the first
\* log of the key all the same: the variant of terminate_review that C40 must
\* tell from the code
terminate_review_without_row(S, k, marker, t, rd_ok, wr_ok) ==
    LET found == get_review_metadata(S.meta, k)
        index == IF IsSome(found) THEN Unwrap(found).log_file_index ELSE 0
        folder == IF IsSome(found) THEN Unwrap(found).local_folder ELSE None
        log_path == get_log_path(k.owner, k.repo, k.pr_number, index, folder)
        header == <<marker \o " at " \o ToString(t),
                    "# Original review started at "
                        \o (IF IsSome(found) THEN ToString(Unwrap(found).created_at)
                            ELSE ""),
                    "">>
    IN IF log_path \in DOMAIN S.files
       THEN IF ~wr_ok THEN Err(S, "io error")
            ELSE LET existing_content ==
                         IF rd_ok THEN S.files[log_path] ELSE <<>>
                     S1 == [S EXCEPT !.files =
                                (log_path :> (header \o existing_content))
                                @@ S.files]
                 IN Ok(delete_metadata(S1, k), None)
       ELSE Ok(delete_metadata(S, k), None)

\* the common body of abandon_review, mark_review_submitted and clear_review:
\* prepend the header to the log if the file exists, then delete the row.
\* rd_ok = FALSE: read_to_string fails (unwrap_or_default gives "");
\* wr_ok = FALSE: fs::write fails and the error is returned before the DELETE
terminate_review(S, k, marker, t, rd_ok, wr_ok) ==
    LET found == get_review_metadata(S.meta, k)
    IN IF ~IsSome(found) THEN Ok(S, None)
       ELSE
         LET meta == Unwrap(found)
             log_path == get_log_path(k.owner, k.repo, k.pr_number,
                                      meta.log_file_index, meta.local_folder)
             header == <<marker \o " at " \o ToString(t),
                         "# Original review started at " \o ToString(meta.created_at),
                         "">>
         IN IF log_path \in DOMAIN S.files
            THEN IF ~wr_ok THEN Err(S, "io error")
                 ELSE LET existing_content ==
                              IF rd_ok THEN S.files[log_path] ELSE <<>>
                          S1 == [S EXCEPT !.files =
                                     (log_path :> (header \o existing_content))
                                     @@ S.files]
                      IN Ok(delete_metadata(S1, k), None)
            ELSE Ok(delete_metadata(S, k), None)

AbandonedMarker == "# REVIEW ABANDONED"
SubmittedMarker == "# REVIEW SUBMITTED TO GITHUB"
DeletedMarker == "# REVIEW DELETED (NOT SUBMITTED TO GITHUB)"

abandon_review(S, k, t, rd_ok, wr_ok) ==
    terminate_review(S, k, AbandonedMarker, t, rd_ok, wr_ok)

mark_review_submitted(S, k, t, rd_ok, wr_ok) ==
    terminate_review(S, k, SubmittedMarker, t, rd_ok, wr_ok)

clear_review(S, k, t, rd_ok, wr_ok) ==
    terminate_review(S, k, DeletedMarker, t, rd_ok, wr_ok)

\* cmd_local_add_comment: start_review (no body) first, then add_comment with
\* the line number, 0 when none was selected
cmd_local_add_comment(S, k, file_path, line_number, side, body, commit_id, in_reply_to_id, local_folder, t, title, io_ok) ==
    LET started == start_review(S, k, commit_id, None, local_folder, t)
    IN add_comment(started.S, k, file_path,
                   IF IsSome(line_number) THEN Unwrap(line_number) ELSE 0,
                   side, body, commit_id, in_reply_to_id, title, io_ok)

-----------------------------------------------------------------------------
(* SubmissionCoordinator: create_review_with_comments, one comment *)

\* a payload that always carries line and side: the variant of Payload that
\* C21 must tell from the code
Payload_always_line(comment, commit_id) ==
    [body |-> comment.body, commit_id |-> commit_id, path |-> comment.file_path,
     subject_type |-> None,
     line |-> Some(comment.line_number),
     side |-> Some(comment.side)]

\* the JSON object posted for one comment
Payload(comment, commit_id) ==
    [body |-> comment.body, commit_id |-> commit_id, path |-> comment.file_path,
     subject_type |-> IF comment.line_number = 0 THEN Some("file") ELSE None,
     line |-> IF comment.line_number = 0 THEN None ELSE Some(comment.line_number),
     side |-> IF comment.line_number = 0 THEN None ELSE Some(comment.side)]

PostError(comment, outcome) ==
    "Failed to post comment to " \o comment.file_path \o ":"
        \o ToString(comment.line_number) \o " - " \o outcome

\* a loop that also reports a comment whose POST failed as posted: the variant
\* of post_one that C2 must tell from the code
post_one_failed_as_posted(p, outcome) ==
    LET comment == p.comments[p.index + 1]
    IN IF outcome = "ok"
       THEN [p EXCEPT !.index = @ + 1, !.succeeded = @ + 1,
                      !.succeeded_ids = Append(@, comment.id)]
       ELSE [p EXCEPT !.index = @ + 1, !.failed = @ + 1,
                      !.succeeded_ids = Append(@, comment.id),
                      !.errors = Append(@, PostError(comment, outcome))]

\* a loop that stops at the first failed POST: the variant of post_one that C5
\* must tell from the code
post_one_abort_on_failure(p, outcome) ==
    LET comment == p.comments[p.index + 1]
    IN IF outcome = "ok"
       THEN [p EXCEPT !.index = @ + 1, !.succeeded = @ + 1,
                      !.succeeded_ids = Append(@, comment.id)]
       ELSE [p EXCEPT !.index = Len(p.comments), !.failed = @ + 1,
                      !.errors = Append(@, PostError(comment, outcome))]

\* the pass state after the POST of comment number p.index + 1 ended with outcome
post_one(p, outcome) ==
    LET comment == p.comments[p.index + 1]
    IN IF outcome = "ok"
       THEN [p EXCEPT !.index = @ + 1, !.succeeded = @ + 1,
                      !.succeeded_ids = Append(@, comment.id)]
       ELSE [p EXCEPT !.index = @ + 1, !.failed = @ + 1,
                      !.errors = Append(@, PostError(comment, outcome))]

\* a summary that reports an error only when no comment was posted: the
\* variant of error_summary that C3 must tell from the code
error_summary_only_total_failure(p) ==
    IF p.failed > 0 /\ p.succeeded = 0
    THEN Some(<<"Failed to submit all " \o ToString(Len(p.comments))
                    \o " comments:">> \o p.errors)
    ELSE None

\* a summary that reports an error whenever no comment was posted, an empty
\* list included: the variant of error_summary that C38 must tell from the code
error_summary_nothing_posted(p) ==
    IF p.succeeded = 0
    THEN Some(<<"Failed to submit all " \o ToString(Len(p.comments))
                    \o " comments:">> \o p.errors)
    ELSE IF p.failed > 0
    THEN Some(<<"Submitted " \o ToString(p.succeeded) \o " of "
                    \o ToString(Len(p.comments)) \o " comments. Failed comments:">>
              \o p.errors)
    ELSE None

\* what create_review_with_comments returns after the loop: the error summary
\* (its lines), None when nothing failed
error_summary(p) ==
    IF p.failed > 0
    THEN Some(<<IF p.succeeded > 0
                THEN "Submitted " \o ToString(p.succeeded) \o " of "
                         \o ToString(Len(p.comments)) \o " comments. Failed comments:"
                ELSE "Failed to submit all " \o ToString(Len(p.comments))
                         \o " comments:">>
              \o p.errors)
    ELSE None

Idle == [pc |-> "idle"]

\* the tasks that may each have one storage call in flight
Callers == {1, 2}

-----------------------------------------------------------------------------
(* DiffPositionResolver: convert_diff_position_to_line, parse_hunk_header *)

\* str::starts_with
starts_with(chars, prefix) ==
    Len(chars) >= Len(prefix) /\ SubSeq(chars, 1, Len(prefix)) = prefix

\* where the separator first occurs in the text, 0 when it does not
find(chars, sep) ==
    LET hits == {i \in 1..(Len(chars) - Len(sep) + 1) :
                    SubSeq(chars, i, i + Len(sep) - 1) = sep}
    IN IF hits = {} THEN 0 ELSE CHOOSE i \in hits : \A j \in hits : i <= j

RECURSIVE split(_, _)
\* str::split(sep).collect()
split(chars, sep) ==
    LET i == find(chars, sep)
    IN IF i = 0 THEN <<chars>>
       ELSE <<SubSeq(chars, 1, i - 1)>>
                \o split(SubSeq(chars, i + Len(sep), Len(chars)), sep)

RECURSIVE split_whitespace(_)
\* str::split_whitespace().collect()
split_whitespace(chars) ==
    LET s == TrimStart(chars)
        i == find(s, <<" ">>)
    IN IF s = <<>> THEN <<>>
       ELSE IF i = 0 THEN <<s>>
       ELSE <<SubSeq(s, 1, i - 1)>> \o split_whitespace(SubSeq(s, i + 1, Len(s)))

RECURSIVE trim_start_matches(_, _)
trim_start_matches(chars, c) ==
    IF chars /= <<>> /\ Head(chars) = c
    THEN trim_start_matches(Tail(chars), c) ELSE chars

Digits ==
    ("0" :> 0) @@ ("1" :> 1) @@ ("2" :> 2) @@ ("3" :> 3) @@ ("4" :> 4)
    @@ ("5" :> 5) @@ ("6" :> 6) @@ ("7" :> 7) @@ ("8" :> 8) @@ ("9" :> 9)

RECURSIVE digits_value(_)
digits_value(chars) ==
    IF chars = <<>> THEN 0
    ELSE 10 * digits_value(SubSeq(chars, 1, Len(chars) - 1))
             + Digits[chars[Len(chars)]]

\* str::parse::<u64>().ok(): decimal digits after an optional plus sign, below
\* 2^64
parse_u64(chars) ==
    LET digits == IF chars /= <<>> /\ Head(chars) = "+" THEN Tail(chars) ELSE chars
    IN IF digits = <<>> \/ \E i \in 1..Len(digits) : digits[i] \notin DOMAIN Digits
       THEN None
       ELSE IF Len(digits) > 19 THEN None
       ELSE Some(digits_value(digits))

\* the start of one side of a hunk header: "-start,count" or "+start,count"
hunk_start(text, sign) ==
    parse_u64(split(trim_start_matches(text, sign), <<",">>)[1])

parse_hunk_header(line) ==
    LET parts == split(line, <<"@", "@">>)
    IN IF Len(parts) < 2 THEN None
       ELSE LET sides == split_whitespace(Trim(parts[2]))
            IN IF Len(sides) < 2 THEN None
               ELSE LET left_start == hunk_start(sides[1], "-")
                        right_start == hunk_start(sides[2], "+")
                    IN IF ~IsSome(left_start) \/ ~IsSome(right_start) THEN None
                       ELSE Some(<<Unwrap(left_start), Unwrap(right_start)>>)

\* a resolver that returns the line of the side it is asked for also when the
\* line at the position is not on that side: the variant of scan_lines that
\* C17 must tell from the code
RECURSIVE scan_lines_any_side(_, _, _, _, _, _)
scan_lines_any_side(lines, position, side, position_before, left_line, right_line) ==
    IF lines = <<>> THEN None
    ELSE
      LET line == Head(lines)
          current_position == position_before + 1
      IN IF starts_with(line, <<"@", "@">>)
         THEN LET header == parse_hunk_header(line)
              IN IF IsSome(header)
                 THEN scan_lines_any_side(Tail(lines), position, side, position_before,
                                          Unwrap(header)[1], Unwrap(header)[2])
                 ELSE scan_lines_any_side(Tail(lines), position, side, position_before,
                                          left_line, right_line)
         ELSE IF current_position = position
              THEN Some(IF side = "LEFT" THEN left_line ELSE right_line)
              ELSE scan_lines_any_side(Tail(lines), position, side, current_position,
                                       IF starts_with(line, <<"+">>) THEN left_line
                                       ELSE left_line + 1,
                                       IF starts_with(line, <<"-">>) THEN right_line
                                       ELSE right_line + 1)

RECURSIVE scan_lines(_, _, _, _, _, _)
\* the loop over patch.lines(), from the line Head(lines) on
scan_lines(lines, position, side, position_before, left_line, right_line) ==
    IF lines = <<>> THEN None
    ELSE
      LET line == Head(lines)
          current_position == position_before + 1
      IN IF starts_with(line, <<"@", "@">>)
         THEN LET header == parse_hunk_header(line)
              IN IF IsSome(header)
                 THEN scan_lines(Tail(lines), position, side, position_before,
                                 Unwrap(header)[1], Unwrap(header)[2])
                 ELSE scan_lines(Tail(lines), position, side, position_before,
                                 left_line, right_line)
         ELSE IF starts_with(line, <<"-">>)
         THEN IF current_position = position /\ side = "LEFT"
              THEN Some(left_line)
              ELSE scan_lines(Tail(lines), position, side, current_position,
                              left_line + 1, right_line)
         ELSE IF starts_with(line, <<"+">>)
         THEN IF current_position = position /\ side = "RIGHT"
              THEN Some(right_line)
              ELSE scan_lines(Tail(lines), position, side, current_position,
                              left_line, right_line + 1)
         ELSE IF current_position = position
              THEN Some(IF side = "LEFT" THEN left_line ELSE right_line)
              ELSE scan_lines(Tail(lines), position, side, current_position,
                              left_line + 1, right_line + 1)

\* a resolver whose positions count from 0: the variant of
\* convert_diff_position_to_line that C16 must tell from the code
convert_diff_position_from_zero(patch, position, side) ==
    scan_lines(patch, position + 1, side, 0, 0, 0)

\* patch is the sequence patch.lines() of the patch text
convert_diff_position_to_line(patch, position, side) ==
    scan_lines(patch, position, side, 0, 0, 0)

-----------------------------------------------------------------------------
(* Initial state *)

Init ==
    /\ foreign_keys \in BOOLEAN
    /\ now = 0
    /\ review_metadata = {}
    /\ review_comments = {}
    /\ next_rowid = 1
    /\ files = <<>>
    /\ ret = [op |-> "init", at |-> 0, arg |-> None, ok |-> TRUE, val |-> None]
    /\ sub = Idle
    /\ posted = <<>>
    /\ assigned = [k \in Keys |-> {}]
    /\ first_commit = [k \in Keys |-> None]
    /\ sent = {}
    /\ calls = [p \in Callers |-> Idle]
    /\ accepted = {}

-----------------------------------------------------------------------------
(* Commands *)

\* install the store a call left behind
Install(S) ==
    /\ review_metadata' = S.meta
    /\ review_comments' = S.comments
    /\ next_rowid' = S.rowid
    /\ files' = S.files
    /\ UNCHANGED foreign_keys

\* a command issued at time now + 1 ends: its store, what it was called with
\* and what it returned
Finish(op, arg, r) ==
    /\ Install(r.S)
    /\ ret' = [op |-> op, at |-> now + 1, arg |-> arg, ok |-> r.ok, val |-> r.val]

\* history of the indices given to the rows created for each key
NoteAssigned ==
    assigned' =
        [k \in Keys |->
            IF MetaRows(review_metadata, k) = {} /\ MetaRows(review_metadata', k) /= {}
            THEN LET m == CHOOSE r \in MetaRows(review_metadata', k) : TRUE
                 IN assigned[k] \cup
                        {[index |-> m.log_file_index,
                          base |-> LogBase(m.owner, m.repo, m.pr_number,
                                           m.local_folder)]}
            ELSE assigned[k]]

\* history of the commit id each row was created with
NoteFirstCommit(commit_id) ==
    first_commit' =
        [k \in Keys |->
            IF MetaRows(review_metadata', k) = {} THEN None
            ELSE IF MetaRows(review_metadata, k) = {} THEN Some(commit_id)
            ELSE first_commit[k]]

\* the index a new row for the key would get stays within the model's bound
IndexInBound(k, local_folder) ==
    \/ MetaRows(review_metadata, k) /= {}
    \/ find_next_log_index(DOMAIN files, k.owner, k.repo, k.pr_number,
                           local_folder) <= MaxIndex

\* a command is issued, one clock tick after the previous one; Now is the
\* time it reads
Issue == now' = now + 1

Now == now + 1

StartReview(k, commit_id, body, local_folder) ==
    /\ Issue
    /\ IndexInBound(k, local_folder)
    /\ Finish("start_review",
              [key |-> k, commit_id |-> commit_id, body |-> body,
               local_folder |-> local_folder],
              start_review(St, k, commit_id, body, local_folder, Now))
    /\ NoteAssigned
    /\ NoteFirstCommit(commit_id)
    /\ UNCHANGED <<calls, accepted, sub, posted, sent>>

UpdateReviewCommit(k, new_commit_id) ==
    /\ Issue
    /\ Finish("update_review_commit", [key |-> k, commit_id |-> new_commit_id],
              update_review_commit(St, k, new_commit_id))
    /\ UNCHANGED <<calls, accepted, sub, posted, assigned, first_commit, sent>>

AddComment(k, in, in_reply_to_id, local_folder, title, io_ok) ==
    /\ Issue
    /\ next_rowid <= MaxComments
    /\ IndexInBound(k, local_folder)
    /\ Finish("add_comment", [key |-> k, title |-> title],
              cmd_local_add_comment(St, k, in[1], in[2], in[3], in[4], in[5],
                                    in_reply_to_id, local_folder, Now, title, io_ok))
    /\ NoteAssigned
    /\ NoteFirstCommit(in[5])
    /\ UNCHANGED <<calls, accepted, sub, posted, sent>>

UpdateComment(comment_id, new_body, title, io_ok) ==
    /\ Issue
    /\ Finish("update_comment", [comment_id |-> comment_id, title |-> title],
              update_comment(St, comment_id, new_body, title, io_ok))
    /\ UNCHANGED <<calls, accepted, sub, posted, assigned, first_commit, sent>>

DeleteComment(comment_id, title, io_ok) ==
    /\ Issue
    /\ Finish("delete_comment", [comment_id |-> comment_id, title |-> title],
              delete_comment(St, comment_id, title, io_ok))
    /\ UNCHANGED <<calls, accepted, sub, posted, assigned, first_commit, sent>>

UpdateCommentFilePath(k, old_path, new_path, title, io_ok) ==
    /\ Issue
    /\ Finish("update_comment_file_path",
              [key |-> k, old_path |-> old_path, new_path |-> new_path,
               title |-> title],
              update_comment_file_path(St, k, old_path, new_path, title, io_ok))
    /\ UNCHANGED <<calls, accepted, sub, posted, assigned, first_commit, sent>>

AbandonReview(k, rd_ok, wr_ok) ==
    /\ Issue
    /\ Finish("abandon_review", [key |-> k],
              abandon_review(St, k, Now, rd_ok, wr_ok))
    /\ NoteFirstCommit("")
    /\ UNCHANGED <<calls, accepted, sub, posted, assigned, sent>>

ClearReview(k, rd_ok, wr_ok) ==
    /\ Issue
    /\ Finish("clear_review", [key |-> k],
              clear_review(St, k, Now, rd_ok, wr_ok))
    /\ NoteFirstCommit("")
    /\ UNCHANGED <<calls, accepted, sub, posted, assigned, sent>>

\* map_review_comment: the line of a fetched comment that carries a position
\* is what the resolver finds in the patch of its file
ResolvePosition(patch, position, side) ==
    /\ now = 0
    /\ Issue
    /\ ret' = [op |-> "convert_diff_position_to_line", at |-> now + 1,
               arg |-> [patch |-> patch, position |-> position, side |-> side],
               ok |-> TRUE,
               val |-> convert_diff_position_to_line(patch, position, side)]
    /\ UNCHANGED <<calls, accepted, foreign_keys, review_metadata, review_comments, next_rowid,
                   files, sub, posted, assigned, first_commit, sent>>

-----------------------------------------------------------------------------
(* cmd_submit_local_review, step by step *)

\* what the command issued at time t for the key returns; an error is the
\* sequence of the lines of its message
SubmitReturn(k, t, ok, val) ==
    [op |-> "submit_local_review", at |-> t, arg |-> [key |-> k],
     ok |-> ok, val |-> val]

\* a pass that submits against the commit the review captured: the variant of
\* commit_id_to_use that C18 must tell from the code
commit_id_captured(head_sha, metadata) == metadata.commit_id

\* the commit the comments are posted against
commit_id_to_use(head_sha, metadata) ==
    IF head_sha /= metadata.commit_id THEN head_sha ELSE metadata.commit_id

\* a submission that drops the comments of the review when it fails before
\* the loop: the variant of SubmitStart that C19 must tell from the code
SubmitStart_sweeps_on_failure(k, head) ==
    /\ sub.pc = "idle"
    /\ Issue
    /\ IF IsSome(get_review_metadata(review_metadata, k)) /\ head \in Commits
       THEN LET metadata == Unwrap(get_review_metadata(review_metadata, k))
            IN /\ sub' = [pc |-> "post", key |-> k, metadata |-> metadata,
                          comments |-> get_comments(review_comments, k),
                          head_sha |-> head,
                          commit_id |-> commit_id_to_use(head, metadata),
                          index |-> 0, succeeded |-> 0, failed |-> 0,
                          succeeded_ids |-> <<>>, errors |-> <<>>,
                          error_msg |-> None, to_delete |-> <<>>]
               /\ posted' = <<>>
               /\ UNCHANGED <<ret, review_comments>>
       ELSE /\ ret' = SubmitReturn(k, Now, FALSE, <<"No pending review found">>)
            /\ review_comments' = {c \in review_comments : KeyOf(c) /= k}
            /\ UNCHANGED <<sub, posted>>
    /\ UNCHANGED <<calls, accepted, foreign_keys, review_metadata, next_rowid, files, assigned,
                   first_commit, sent>>

\* load the metadata and the active comments, fetch the pull request and pick
\* the commit id; head is the pull request's current head, or what failed
\* before the loop ("fetch_failed": fetch_pull_request_details, "no_token":
\* require_token in submit_review_with_comments)
\* a pass whose snapshot holds the soft-deleted comments too: the variant of
\* SubmitStart that C39 must tell from the code
SubmitStart_snapshot_with_deleted(k, head) ==
    /\ sub.pc = "idle"
    /\ Issue
    /\ LET found == get_review_metadata(review_metadata, k)
       IN IF ~IsSome(found)
          THEN /\ ret' = SubmitReturn(k, Now, FALSE, <<"No pending review found">>)
               /\ UNCHANGED <<sub, posted>>
          ELSE IF head \notin Commits
          THEN /\ ret' = SubmitReturn(k, Now, FALSE, <<head>>)
               /\ UNCHANGED <<sub, posted>>
          ELSE LET metadata == Unwrap(found)
               IN /\ sub' = [pc |-> "post", key |-> k, metadata |-> metadata,
                             comments |-> all_comments(review_comments, k),
                             head_sha |-> head,
                             commit_id |-> commit_id_to_use(head, metadata),
                             index |-> 0, succeeded |-> 0, failed |-> 0,
                             succeeded_ids |-> <<>>, errors |-> <<>>,
                             error_msg |-> None, to_delete |-> <<>>]
                  /\ posted' = <<>>
                  /\ UNCHANGED ret
    /\ UNCHANGED <<calls, accepted, foreign_keys, review_metadata, review_comments,
                   next_rowid, files, assigned, first_commit, sent>>

SubmitStart(k, head) ==
    /\ sub.pc = "idle"
    /\ Issue
    /\ LET found == get_review_metadata(review_metadata, k)
       IN IF ~IsSome(found)
          THEN /\ ret' = SubmitReturn(k, Now, FALSE, <<"No pending review found">>)
               /\ UNCHANGED <<sub, posted>>
          ELSE IF head \notin Commits
          THEN /\ ret' = SubmitReturn(k, Now, FALSE, <<head>>)
               /\ UNCHANGED <<sub, posted>>
          ELSE LET metadata == Unwrap(found)
               IN /\ sub' = [pc |-> "post", key |-> k, metadata |-> metadata,
                             comments |-> get_comments(review_comments, k),
                             head_sha |-> head,
                             commit_id |-> commit_id_to_use(head, metadata),
                             index |-> 0, succeeded |-> 0, failed |-> 0,
                             succeeded_ids |-> <<>>, errors |-> <<>>,
                             error_msg |-> None, to_delete |-> <<>>]
                  /\ posted' = <<>>
                  /\ UNCHANGED ret
    /\ UNCHANGED <<calls, accepted, foreign_keys, review_metadata, review_comments,
                   next_rowid, files, assigned, first_commit, sent>>

\* one turn of the loop of create_review_with_comments
PostComment(outcome) ==
    /\ sub.pc = "post"
    /\ sub.index < Len(sub.comments)
    /\ posted' = Append(posted,
                        [id |-> sub.comments[sub.index + 1].id,
                         payload |-> Payload(sub.comments[sub.index + 1],
                                             sub.commit_id),
                         outcome |-> outcome])
    /\ sub' = post_one(sub, outcome)
    /\ accepted' = IF outcome = "ok"
                   THEN accepted \cup {sub.comments[sub.index + 1].id}
                   ELSE accepted
    /\ UNCHANGED <<calls, foreign_keys, now, review_metadata, review_comments,
                   next_rowid, files, ret, assigned, first_commit, sent>>

\* the loop is over: create_review_with_comments returns (succeeded_ids, error_msg)
PostingDone ==
    /\ sub.pc = "post"
    /\ sub.index = Len(sub.comments)
    /\ sub' = [sub EXCEPT !.pc = "sweep", !.error_msg = error_summary(sub),
                          !.to_delete = sub.succeeded_ids]
    /\ UNCHANGED <<calls, accepted, foreign_keys, now, review_metadata, review_comments,
                   next_rowid, files, ret, posted, assigned, first_commit, sent>>

\* the log entry of a comment row, where the log of its review holds it
LoggedEntry(S, id) ==
    {[file |-> get_log_path(m.owner, m.repo, m.pr_number, m.log_file_index,
                            m.local_folder),
      line |-> CommentLine(c)] :
        <<m, c>> \in {mc \in S.meta \X S.comments :
                        /\ mc[2].id = id
                        /\ KeyOf(mc[1]) = KeyOf(mc[2])
                        /\ LET f == get_log_path(mc[1].owner, mc[1].repo,
                                                 mc[1].pr_number,
                                                 mc[1].log_file_index,
                                                 mc[1].local_folder)
                           IN /\ f \in DOMAIN S.files
                              /\ \E i \in 1..Len(S.files[f]) :
                                     S.files[f][i] = CommentLine(mc[2])}}

\* a sweep that skips a comment whose DELETE failed and goes on: the variant
\* of SweepDelete that C32 must tell from the code
SweepDelete_skips_failure(db_ok) ==
    /\ sub.pc = "sweep"
    /\ sub.to_delete /= <<>>
    /\ LET r == delete_comment_preserve_log(St, Head(sub.to_delete), db_ok)
       IN /\ Install(r.S)
          /\ sub' = [sub EXCEPT !.to_delete = Tail(@)]
          /\ sent' = IF r.ok THEN sent \cup LoggedEntry(St, Head(sub.to_delete))
                     ELSE sent
          /\ UNCHANGED ret
    /\ UNCHANGED <<calls, accepted, now, posted, assigned, first_commit>>

\* the sweep: hard-delete the next succeeded comment
SweepDelete(db_ok) ==
    /\ sub.pc = "sweep"
    /\ sub.to_delete /= <<>>
    /\ LET r == delete_comment_preserve_log(St, Head(sub.to_delete), db_ok)
       IN /\ Install(r.S)
          /\ IF r.ok
             THEN /\ sub' = [sub EXCEPT !.to_delete = Tail(@)]
                  /\ sent' = sent \cup LoggedEntry(St, Head(sub.to_delete))
                  /\ UNCHANGED ret
             ELSE /\ sub' = Idle
                  /\ ret' = SubmitReturn(sub.key, now, FALSE, <<r.val>>)
                  /\ UNCHANGED sent
    /\ UNCHANGED <<calls, accepted, now, posted, assigned, first_commit>>

\* a pass that finalizes the review whatever is left: the variant of Requery
\* that C4 must tell from the code
Requery_always_finalize(db_ok) ==
    /\ sub.pc = "sweep"
    /\ sub.to_delete = <<>>
    /\ IF ~db_ok
       THEN /\ sub' = Idle
            /\ ret' = SubmitReturn(sub.key, now, FALSE, <<"database error">>)
       ELSE /\ sub' = [sub EXCEPT !.pc = "mark"]
            /\ UNCHANGED ret
    /\ UNCHANGED <<calls, accepted, foreign_keys, now, review_metadata, review_comments,
                   next_rowid, files, posted, assigned, first_commit, sent>>

\* re-query the active comments; db_ok = FALSE is the query failing
Requery(db_ok) ==
    /\ sub.pc = "sweep"
    /\ sub.to_delete = <<>>
    /\ IF ~db_ok
       THEN /\ sub' = Idle
            /\ ret' = SubmitReturn(sub.key, now, FALSE, <<"database error">>)
       ELSE /\ sub' = [sub EXCEPT
                           !.pc = IF get_comments(review_comments, sub.key) = <<>>
                                  THEN "mark" ELSE "return"]
            /\ UNCHANGED ret
    /\ UNCHANGED <<calls, accepted, foreign_keys, now, review_metadata, review_comments,
                   next_rowid, files, posted, assigned, first_commit, sent>>

\* no active comment is left: mark_review_submitted
MarkSubmitted(rd_ok, wr_ok) ==
    /\ sub.pc = "mark"
    /\ LET r == mark_review_submitted(St, sub.key, now, rd_ok, wr_ok)
       IN /\ Install(r.S)
          /\ IF r.ok
             THEN /\ sub' = [sub EXCEPT !.pc = "return"]
                  /\ UNCHANGED ret
             ELSE /\ sub' = Idle
                  /\ ret' = SubmitReturn(sub.key, now, FALSE, <<r.val>>)
    /\ first_commit' = [k \in DOMAIN first_commit |->
                             IF k = sub.key /\ MetaRows(review_metadata', k) = {}
                             THEN None ELSE first_commit[k]]
    /\ UNCHANGED <<calls, accepted, now, posted, assigned, sent>>

\* the command returns: the error summary if a comment failed, else Ok
SubmitFinish ==
    /\ sub.pc = "return"
    /\ ret' = IF IsSome(sub.error_msg)
              THEN SubmitReturn(sub.key, now, FALSE, Unwrap(sub.error_msg))
              ELSE SubmitReturn(sub.key, now, TRUE, None)
    /\ sub' = Idle
    /\ posted' = <<>>
    /\ UNCHANGED <<calls, accepted, foreign_keys, now, review_metadata, review_comments,
                   next_rowid, files, assigned, first_commit, sent>>

-----------------------------------------------------------------------------
(* Specifications.  The commands run one after the other (a store command  *)
(* starts only while no submission is in flight); the submission command   *)
(* runs step by step.                                                      *)

CommentIds == 1..(MaxComments + 1)
Replies == {None}
Heads == Commits
PreLoopFailures == {"fetch_failed", "no_token"}

\* a command may start: no submission is in flight, and the run has issued
\* fewer than n commands
Ready(n) == sub.pc = "idle" /\ now < n

\* Spec: no file-system or database fault, the remote may fail each POST
Next ==
    \/ \E k \in Keys, c \in Commits, b \in ReviewBodies, f \in Folders :
          Ready(MaxOps) /\ StartReview(k, c, b, f)
    \/ \E k \in Keys, c \in Commits :
          Ready(MaxOps) /\ UpdateReviewCommit(k, c)
    \/ \E k \in Keys, in \in CommentInputs, r \in Replies, f \in Folders,
          t \in Titles :
          Ready(MaxOps) /\ AddComment(k, in, r, f, t, TRUE)
    \/ \E id \in CommentIds, b \in CommentBodies, t \in Titles :
          Ready(MaxOps) /\ UpdateComment(id, b, t, TRUE)
    \/ \E id \in CommentIds, t \in Titles :
          Ready(MaxOps) /\ DeleteComment(id, t, TRUE)
    \/ \E k \in Keys, rn \in Renames, t \in Titles :
          Ready(MaxOps) /\ UpdateCommentFilePath(k, rn[1], rn[2], t, TRUE)
    \/ \E k \in Keys : Ready(MaxOps) /\ AbandonReview(k, TRUE, TRUE)
    \/ \E k \in Keys : Ready(MaxOps) /\ ClearReview(k, TRUE, TRUE)
    \/ \E k \in Keys, head \in Heads : Ready(MaxOps) /\ SubmitStart(k, head)
    \/ \E o \in PostOutcomes : PostComment(o)
    \/ PostingDone
    \/ SweepDelete(TRUE)
    \/ Requery(TRUE)
    \/ MarkSubmitted(TRUE, TRUE)
    \/ SubmitFinish

Spec == Init /\ [][Next]_vars

\* SpecFaults: as Spec, where every log write, log read, statement of the
\* finalization sweep and request before the loop may fail
NextFaults ==
    \/ \E k \in Keys, c \in Commits, b \in ReviewBodies, f \in Folders :
          Ready(MaxFaultOps) /\ StartReview(k, c, b, f)
    \/ \E k \in Keys, c \in Commits :
          Ready(MaxFaultOps) /\ UpdateReviewCommit(k, c)
    \/ \E k \in Keys, in \in CommentInputs, r \in Replies, f \in Folders,
          t \in Titles, io \in BOOLEAN :
          Ready(MaxFaultOps) /\ AddComment(k, in, r, f, t, io)
    \/ \E id \in CommentIds, b \in CommentBodies, t \in Titles, io \in BOOLEAN :
          Ready(MaxFaultOps) /\ UpdateComment(id, b, t, io)
    \/ \E id \in CommentIds, t \in Titles, io \in BOOLEAN :
          Ready(MaxFaultOps) /\ DeleteComment(id, t, io)
    \/ \E k \in Keys, rn \in Renames, t \in Titles, io \in BOOLEAN :
          Ready(MaxFaultOps) /\ UpdateCommentFilePath(k, rn[1], rn[2], t, io)
    \/ \E k \in Keys, rd \in BOOLEAN, wr \in BOOLEAN :
          Ready(MaxFaultOps) /\ AbandonReview(k, rd, wr)
    \/ \E k \in Keys, rd \in BOOLEAN, wr \in BOOLEAN :
          Ready(MaxFaultOps) /\ ClearReview(k, rd, wr)
    \/ \E k \in Keys, head \in Heads \cup PreLoopFailures :
          Ready(MaxFaultOps) /\ SubmitStart(k, head)
    \/ \E o \in PostOutcomes : PostComment(o)
    \/ PostingDone
    \/ \E db \in BOOLEAN : SweepDelete(db)
    \/ \E db \in BOOLEAN : Requery(db)
    \/ \E rd \in BOOLEAN, wr \in BOOLEAN : MarkSubmitted(rd, wr)
    \/ SubmitFinish

SpecFaults == Init /\ [][NextFaults]_vars

\* SpecLocal: the commands of local folder mode (no pull request, nothing is
\* submitted), the folder changing from one command to the next
NextLocal ==
    \/ \E f \in LocalFolders :
          Ready(MaxLocalOps) /\ StartReview(KL, "c1", None, f)
    \/ \E in \in CommentInputs, f \in LocalFolders :
          Ready(MaxLocalOps) /\ AddComment(KL, in, None, f, "", TRUE)
    \/ \E id \in CommentIds, b \in CommentBodies :
          Ready(MaxLocalOps) /\ UpdateComment(id, b, "", TRUE)
    \/ \E id \in CommentIds :
          Ready(MaxLocalOps) /\ DeleteComment(id, "", TRUE)
    \/ Ready(MaxLocalOps) /\ AbandonReview(KL, TRUE, TRUE)
    \/ Ready(MaxLocalOps) /\ ClearReview(KL, TRUE, TRUE)

SpecLocal == Init /\ [][NextLocal]_vars

\* SpecStore: the store commands on the reviews of two pull requests, nothing
\* is submitted
NextStore ==
    \/ \E k \in TwoKeys : Ready(MaxStoreOps) /\ StartReview(k, "c1", None, None)
    \/ \E k \in TwoKeys : Ready(MaxStoreOps) /\ UpdateReviewCommit(k, "c2")
    \/ \E k \in TwoKeys, in \in CommentInputs :
          Ready(MaxStoreOps) /\ AddComment(k, in, None, None, "", TRUE)
    \/ \E id \in CommentIds, b \in CommentBodies :
          Ready(MaxStoreOps) /\ UpdateComment(id, b, "", TRUE)
    \/ \E id \in CommentIds :
          Ready(MaxStoreOps) /\ DeleteComment(id, "", TRUE)
    \/ \E k \in TwoKeys, rn \in Renames :
          Ready(MaxStoreOps) /\ UpdateCommentFilePath(k, rn[1], rn[2], "", TRUE)
    \/ \E k \in TwoKeys : Ready(MaxStoreOps) /\ AbandonReview(k, TRUE, TRUE)
    \/ \E k \in TwoKeys : Ready(MaxStoreOps) /\ ClearReview(k, TRUE, TRUE)

SpecStore == Init /\ [][NextStore]_vars

\* the comment commands of one review with every line and side value
NextLog ==
    \/ \E in \in LogInputs : Ready(MaxLogOps) /\ AddComment(K1, in, None, None, "", TRUE)
    \/ \E id \in CommentIds, b \in CommentBodies : Ready(MaxLogOps) /\ UpdateComment(id, b, "", TRUE)
    \/ \E id \in CommentIds : Ready(MaxLogOps) /\ DeleteComment(id, "", TRUE)

SpecLog == Init /\ [][NextLog]_vars

\* the review of a local folder started again and again, with another commit,
\* body and folder or without folder, its commit updated in between
NextRestart ==
    \/ \E c \in Commits, b \in {None, Some("b")}, f \in LocalFolders \cup {None} :
          Ready(MaxRestartOps) /\ StartReview(KL, c, b, f)
    \/ \E c \in Commits : Ready(MaxRestartOps) /\ UpdateReviewCommit(KL, c)
    \/ \E in \in CommentInputs, f \in LocalFolders \cup {None} :
          Ready(MaxRestartOps) /\ AddComment(KL, in, None, f, "", TRUE)

SpecRestart == Init /\ [][NextRestart]_vars

(* Storage calls in flight: each lock section and each file operation of a
   call is one step, so that the calls of two tasks interleave as the awaits
   between them allow *)

\* add_comment, its lock section: the INSERT and the row it returns
add_comment_insert(S, k, file_path, line_number, side, body, commit_id, in_reply_to_id) ==
    IF S.fk /\ ~IsSome(get_review_metadata(S.meta, k))
    THEN Err(S, "FOREIGN KEY constraint failed")
    ELSE LET comment == [id |-> S.rowid, owner |-> k.owner, repo |-> k.repo,
                         pr_number |-> k.pr_number, file_path |-> file_path,
                         line_number |-> line_number, side |-> side,
                         body |-> body, commit_id |-> commit_id,
                         deleted |-> FALSE, in_reply_to_id |-> in_reply_to_id]
         IN Ok([S EXCEPT !.comments = S.comments \cup {comment},
                         !.rowid = S.rowid + 1], comment)

\* update_comment, its lock section: the UPDATE and the row read back
update_comment_update(S, comment_id, new_body) ==
    LET rows == {c \in S.comments : c.id = comment_id}
    IN IF rows = {} THEN Err(S, "Query returned no rows")
       ELSE LET old == CHOOSE c \in rows : TRUE
                comment == [old EXCEPT !.body = new_body]
            IN Ok([S EXCEPT !.comments = (S.comments \ {old}) \cup {comment}],
                  comment)

\* write_log, its lock section: the metadata row and all comment rows of the
\* key as they are now, and from them the path and the content to write
write_log_read(S, k, title) ==
    LET found == get_review_metadata(S.meta, k)
    IN IF ~IsSome(found) THEN Err(S, "Query returned no rows")
       ELSE
         LET metadata == Unwrap(found)
             comments == all_comments(S.comments, k)
             pr_title == IF is_local_folder(k.owner, k.repo) THEN "" ELSE title
         IN Ok(S, [log_path |-> get_log_path(k.owner, k.repo, k.pr_number,
                                             metadata.log_file_index,
                                             metadata.local_folder),
                   content |-> Render(metadata, comments, pr_title)])

\* the header a terminal operation puts before the log's content
TerminalHeader(marker, t, meta) ==
    <<marker \o " at " \o ToString(t),
      "# Original review started at " \o ToString(meta.created_at),
      "">>

\* a caller has no call in flight; after a call it keeps the call's outcome
NotInFlight(p) == calls[p].pc = "idle"

Returned(ok) == [pc |-> "idle", ok |-> ok]

\* the call of caller p returns r (ok, val) to the command that awaited it
Return(p, r) ==
    /\ calls' = [calls EXCEPT ![p] = Returned(r.ok)]
    /\ ret' = [op |-> calls[p].op, at |-> calls[p].at, arg |-> calls[p].arg,
               ok |-> r.ok, val |-> r.val]

\* cmd_local_add_comment up to the end of add_comment's lock section:
\* start_review, then the INSERT
CallAddComment(p, k, in) ==
    /\ NotInFlight(p)
    /\ Issue
    /\ next_rowid <= MaxComments
    /\ IndexInBound(k, None)
    /\ LET started == start_review(St, k, in[5], None, None, Now)
           line_number == IF IsSome(in[2]) THEN Unwrap(in[2]) ELSE 0
           r == add_comment_insert(started.S, k, in[1], line_number, in[3],
                                   in[4], in[5], None)
           call == [pc |-> "log", op |-> "add_comment", at |-> Now,
                    arg |-> [key |-> k, title |-> ""], key |-> k, val |-> r.val]
       IN /\ Install(r.S)
          /\ IF r.ok THEN calls' = [calls EXCEPT ![p] = call] /\ UNCHANGED ret
             ELSE /\ calls' = [calls EXCEPT ![p] = Returned(FALSE)]
                  /\ ret' = [op |-> "add_comment", at |-> Now, arg |-> call.arg,
                             ok |-> FALSE, val |-> r.val]
    /\ NoteAssigned
    /\ NoteFirstCommit(in[5])
    /\ UNCHANGED <<sub, posted, sent, accepted>>

\* update_comment up to the end of its lock section
CallUpdateComment(p, comment_id, new_body) ==
    /\ NotInFlight(p)
    /\ Issue
    /\ LET r == update_comment_update(St, comment_id, new_body)
           arg == [comment_id |-> comment_id, title |-> ""]
       IN /\ Install(r.S)
          /\ IF r.ok
             THEN /\ calls' = [calls EXCEPT ![p] =
                                  [pc |-> "log", op |-> "update_comment",
                                   at |-> Now, arg |-> arg,
                                   key |-> KeyOf(r.val), val |-> r.val]]
                  /\ UNCHANGED ret
             ELSE /\ calls' = [calls EXCEPT ![p] = Returned(FALSE)]
                  /\ ret' = [op |-> "update_comment", at |-> Now, arg |-> arg,
                             ok |-> FALSE, val |-> r.val]
    /\ UNCHANGED <<sub, posted, assigned, first_commit, sent, accepted>>

\* write_log of the call in flight takes the lock and reads the rows; with no
\* metadata row the call returns the error
LogRead(p) ==
    /\ calls[p].pc = "log"
    /\ LET r == write_log_read(St, calls[p].key, "")
       IN IF r.ok
          THEN /\ calls' = [calls EXCEPT ![p] =
                               [calls[p] EXCEPT !.pc = "write"]
                               @@ [log_path |-> r.val.log_path,
                                   content |-> r.val.content]]
               /\ UNCHANGED ret
          ELSE Return(p, r)
    /\ UNCHANGED <<foreign_keys, now, review_metadata, review_comments,
                   next_rowid, files, sub, posted, assigned, first_commit, sent,
                   accepted>>

\* fs::write of the content built from the rows read, then Ok(comment)
LogWrite(p) ==
    /\ calls[p].pc = "write"
    /\ files' = (calls[p].log_path :> calls[p].content) @@ files
    /\ Return(p, [ok |-> TRUE, val |-> calls[p].val])
    /\ UNCHANGED <<foreign_keys, now, review_metadata, review_comments,
                   next_rowid, sub, posted, assigned, first_commit, sent,
                   accepted>>

\* abandon_review, its first lock section: the metadata row of the key; with
\* no row the call returns Ok
CallAbandonReview(p, k) ==
    /\ NotInFlight(p)
    /\ Issue
    /\ LET found == get_review_metadata(review_metadata, k)
       IN IF IsSome(found)
          THEN /\ calls' = [calls EXCEPT ![p] =
                               [pc |-> "header", op |-> "abandon_review",
                                at |-> Now, arg |-> [key |-> k], key |-> k,
                                meta |-> Unwrap(found)]]
               /\ UNCHANGED ret
          ELSE /\ calls' = [calls EXCEPT ![p] = Returned(TRUE)]
               /\ ret' = [op |-> "abandon_review", at |-> Now,
                          arg |-> [key |-> k], ok |-> TRUE, val |-> None]
    /\ UNCHANGED <<foreign_keys, review_metadata, review_comments, next_rowid,
                   files, sub, posted, assigned, first_commit, sent, accepted>>

\* abandon_review: if the log file exists, its content is read and written
\* back behind the header, which carries the time of this step
HeaderWrite(p) ==
    /\ calls[p].pc = "header"
    /\ LET meta == calls[p].meta
           log_path == get_log_path(meta.owner, meta.repo, meta.pr_number,
                                    meta.log_file_index, meta.local_folder)
       IN files' = IF log_path \in DOMAIN files
                   THEN (log_path :> (TerminalHeader(AbandonedMarker, now, meta)
                                      \o files[log_path])) @@ files
                   ELSE files
    /\ calls' = [calls EXCEPT ![p].pc = "delete"]
    /\ UNCHANGED <<foreign_keys, now, review_metadata, review_comments,
                   next_rowid, ret, sub, posted, assigned, first_commit, sent,
                   accepted>>

\* abandon_review, its second lock section: the DELETE, then Ok
RowDelete(p) ==
    /\ calls[p].pc = "delete"
    /\ Install(delete_metadata(St, calls[p].key))
    /\ Return(p, [ok |-> TRUE, val |-> None])
    /\ NoteFirstCommit("")
    /\ UNCHANGED <<now, sub, posted, assigned, sent, accepted>>

\* two tasks issue add_comment, update_comment and abandon_review on one review
NextCalls ==
    \/ \E p \in Callers, in \in CommentInputs :
          now < MaxCallOps /\ CallAddComment(p, K1, in)
    \/ \E p \in Callers, id \in CommentIds, b \in CommentBodies :
          now < MaxCallOps /\ CallUpdateComment(p, id, b)
    \/ \E p \in Callers : now < MaxCallOps /\ CallAbandonReview(p, K1)
    \/ \E p \in Callers : LogRead(p)
    \/ \E p \in Callers : LogWrite(p)
    \/ \E p \in Callers : HeaderWrite(p)
    \/ \E p \in Callers : RowDelete(p)

SpecCalls == Init /\ [][NextCalls]_vars

\* a submission and the add_comment commands of the same review, where a
\* command may run between two steps of the submission
NextOverlap ==
    \/ \E in \in CommentInputs :
          now < MaxOverlapOps /\ AddComment(K1, in, None, None, "", TRUE)
    \/ \E head \in Heads : Ready(MaxOverlapOps) /\ SubmitStart(K1, head)
    \/ \E o \in PostOutcomes : PostComment(o)
    \/ PostingDone
    \/ SweepDelete(TRUE)
    \/ Requery(TRUE)
    \/ MarkSubmitted(TRUE, TRUE)
    \/ SubmitFinish

SpecOverlap == Init /\ [][NextOverlap]_vars

\* the store commands and the submission on the reviews of two pull requests
NextIsolation ==
    \/ \E k \in TwoKeys : Ready(MaxIsolationOps) /\ StartReview(k, "c1", None, None)
    \/ \E k \in TwoKeys : Ready(MaxIsolationOps) /\ UpdateReviewCommit(k, "c2")
    \/ \E k \in TwoKeys, in \in CommentInputs :
          Ready(MaxIsolationOps) /\ AddComment(k, in, None, None, "", TRUE)
    \/ \E id \in CommentIds :
          Ready(MaxIsolationOps) /\ UpdateComment(id, "y", "", TRUE)
    \/ \E id \in CommentIds :
          Ready(MaxIsolationOps) /\ DeleteComment(id, "", TRUE)
    \/ \E k \in TwoKeys, rn \in Renames :
          Ready(MaxIsolationOps) /\ UpdateCommentFilePath(k, rn[1], rn[2], "", TRUE)
    \/ \E k \in TwoKeys : Ready(MaxIsolationOps) /\ AbandonReview(k, TRUE, TRUE)
    \/ \E k \in TwoKeys : Ready(MaxIsolationOps) /\ ClearReview(k, TRUE, TRUE)
    \/ \E k \in TwoKeys : Ready(MaxIsolationOps) /\ SubmitStart(k, "c1")
    \/ \E o \in {"ok", "rejected"} : PostComment(o)
    \/ PostingDone
    \/ SweepDelete(TRUE)
    \/ Requery(TRUE)
    \/ MarkSubmitted(TRUE, TRUE)
    \/ SubmitFinish

SpecIsolation == Init /\ [][NextIsolation]_vars

\* the folder a review of the key is started with
FolderOf(k) ==
    IF is_local_folder(k.owner, k.repo) THEN Some(<<"/", "w", "/", "d">>) ELSE None

\* reviews of several keys are started and commented
NextPaths ==
    \/ \E k \in PathKeys :
          Ready(MaxPathOps) /\ StartReview(k, "c1", None, FolderOf(k))
    \/ \E k \in PathKeys, in \in CommentInputs :
          Ready(MaxPathOps) /\ AddComment(k, in, None, FolderOf(k), "", TRUE)
    \/ \E k \in PathKeys : Ready(MaxPathOps) /\ AbandonReview(k, TRUE, TRUE)

SpecPaths == Init /\ [][NextPaths]_vars

\* what fetch_pr_title gives write_log: the title of the pull request, or ""
\* when the fetch failed
FetchedTitles == {"", "T"}

\* the comment commands of one review, the title fetch failing or not
NextTitle ==
    \/ \E in \in CommentInputs, t \in FetchedTitles :
          Ready(MaxTitleOps) /\ AddComment(K1, in, None, None, t, TRUE)
    \/ \E id \in CommentIds, b \in CommentBodies, t \in FetchedTitles :
          Ready(MaxTitleOps) /\ UpdateComment(id, b, t, TRUE)
    \/ \E id \in CommentIds, t \in FetchedTitles :
          Ready(MaxTitleOps) /\ DeleteComment(id, t, TRUE)
    \/ \E rn \in Renames, t \in FetchedTitles :
          Ready(MaxTitleOps) /\ UpdateCommentFilePath(K1, rn[1], rn[2], t, TRUE)

SpecTitle == Init /\ [][NextTitle]_vars

\* the id of the remote comment a threaded reply answers
ParentId == 7
ThreadReplies == {None, Some(ParentId)}

\* comments and threaded replies of one review, and its submission
NextReply ==
    \/ \E in \in CommentInputs, r \in ThreadReplies :
          Ready(MaxReplyOps) /\ AddComment(K1, in, r, None, "", TRUE)
    \/ \E head \in Heads : Ready(MaxReplyOps) /\ SubmitStart(K1, head)
    \/ \E o \in PostOutcomes : PostComment(o)
    \/ PostingDone
    \/ SweepDelete(TRUE)
    \/ Requery(TRUE)
    \/ MarkSubmitted(TRUE, TRUE)
    \/ SubmitFinish

SpecReply == Init /\ [][NextReply]_vars

\* the resolver applied once to a patch, a position and a side
NextDiff ==
    \E patch \in Diffs, position \in Positions, side \in DiffSides :
        ResolvePosition(patch, position, side)

SpecDiff == Init /\ [][NextDiff]_vars

-----------------------------------------------------------------------------
(* Claims *)

\* the step is the command op returning (every command but the submission is
\* one step; ret'.arg is what it was called with)
Returns(op) == now' = now + 1 /\ ret'.at = now' /\ ret'.op = op

\* C1 (amended): when start_review is called while a metadata row for the key
\* exists, with any commit id, it succeeds and returns the stored created_at
\* and the stored commit id (the one the creating call gave only as long as
\* update_review_commit has not replaced it), and the store still holds
\* exactly one metadata row for the key.
C1_StartReviewReturnsStored ==
    [][(Returns("start_review") /\ MetaRows(review_metadata, ret'.arg.key) /= {}) =>
          LET k == ret'.arg.key
              stored == Unwrap(get_review_metadata(review_metadata, k))
          IN /\ ret'.ok
             /\ ret'.val.created_at = stored.created_at
             /\ ret'.val.commit_id = stored.commit_id
             /\ Cardinality(MetaRows(review_metadata', k)) = 1]_vars

\* start_review has just returned an existing row (created at an earlier
\* time), called with a commit id other than the stored one, and the stored
\* one is no longer the one the creating call gave
C1_Witness ==
    /\ ret.op = "start_review" /\ ret.at = now /\ ret.ok
    /\ ret.val.created_at < ret.at
    /\ ret.arg.commit_id /= ret.val.commit_id
    /\ first_commit[ret.arg.key] /= Some(ret.val.commit_id)

\* C1 as stated: the commit id returned for an existing row is the one given
\* by the first call
C1_FirstCommitWins ==
    [][(Returns("start_review") /\ MetaRows(review_metadata, ret'.arg.key) /= {}) =>
          LET k == ret'.arg.key
              stored == Unwrap(get_review_metadata(review_metadata, k))
          IN /\ ret'.ok
             /\ ret'.val.created_at = stored.created_at
             /\ ret'.val.commit_id = Unwrap(first_commit[k])
             /\ Cardinality(MetaRows(review_metadata', k)) = 1]_vars

\* the step is the submission pass returning after its finalization
PassReturns == sub.pc = "return" /\ sub'.pc = "idle"

\* the POSTs of the current pass that failed
FailedPosts == SelectSeq(posted, LAMBDA a : a.outcome /= "ok")

\* the diagnostic of the i-th comment of the pass, naming its file path and
\* line number
Diagnostic(i) ==
    "Failed to post comment to " \o sub.comments[i].file_path \o ":"
        \o ToString(sub.comments[i].line_number) \o " - " \o posted[i].outcome

\* C2: when a pass over n >= 1 active comments, run without other store
\* operations, returns and a non-empty set F of its comments failed remotely,
\* get_comments returns exactly the comments of F, the metadata row still
\* exists, and the returned error holds one diagnostic per comment of F,
\* naming its file path and line number.
C2_PartialFailureKeepsFailed ==
    [][(PassReturns /\ FailedPosts /= <<>>) =>
          LET F == {FailedPosts[i].id : i \in 1..Len(FailedPosts)}
          IN /\ get_comments(review_comments', sub.key)
                    = SelectSeq(sub.comments, LAMBDA c : c.id \in F)
             /\ MetaRows(review_metadata', sub.key) /= {}
             /\ ~ret'.ok
             /\ Len(ret'.val) = 1 + Cardinality(F)
             /\ \A i \in 1..Len(posted) :
                    posted[i].outcome /= "ok" =>
                        \E j \in 2..Len(ret'.val) : ret'.val[j] = Diagnostic(i)]_vars

\* a pass over two comments has returned: one was posted and is gone, the
\* other failed and is the one active comment left, and the review is open
C2_Witness ==
    /\ ret.op = "submit_local_review" /\ ret.at = now /\ sub.pc = "idle"
    /\ ~ret.ok
    /\ ret.val[1] = "Submitted 1 of 2 comments. Failed comments:"
    /\ Len(get_comments(review_comments, ret.arg.key)) = 1
    /\ MetaRows(review_metadata, ret.arg.key) /= {}

\* C3: a pass whose finalization meets no database or I/O error returns
\* success if and only if none of its comments failed; otherwise it returns
\* the aggregate error, which lists every per-comment failure in order, and
\* the comments that did succeed are removed from the draft all the same.
C3_SuccessIffNoFailure ==
    [][PassReturns =>
          /\ ret'.ok <=> (FailedPosts = <<>>)
          /\ ~ret'.ok =>
                 Tail(ret'.val)
                     = SelectSeq([i \in 1..Len(posted) |->
                                     IF posted[i].outcome = "ok" THEN ""
                                     ELSE Diagnostic(i)],
                                 LAMBDA line : line /= "")
          /\ \A i \in 1..Len(posted) :
                 posted[i].outcome = "ok" =>
                     \A c \in review_comments' : c.id /= posted[i].id]_vars

\* a pass is about to return an error although one of its two comments was
\* posted, and that comment's row is gone
C3_Witness ==
    /\ sub.pc = "return"
    /\ IsSome(sub.error_msg)
    /\ \E i, j \in 1..Len(posted) :
          /\ posted[i].outcome = "ok" /\ posted[j].outcome = "network"
          /\ \A c \in review_comments : c.id /= posted[i].id

\* the log file of the review a pass works on
PassLog ==
    get_log_path(sub.key.owner, sub.key.repo, sub.key.pr_number,
                 sub.metadata.log_file_index, sub.metadata.local_folder)

\* C4 (amended): after the sweep and the re-query of a pass that met no error,
\* the metadata row is deleted if and only if the re-queried list of active
\* comments is empty; the SUBMITTED header is then the first line of the
\* review's log file if that file exists (no file is created for a review
\* that has none); if an active comment remains the row is kept and the log
\* gets no SUBMITTED header.
C4_FinalizedIffNoneLeft ==
    sub.pc = "return" =>
        LET left == get_comments(review_comments, sub.key)
            header == SubmittedMarker \o " at " \o ToString(now)
        IN /\ (MetaRows(review_metadata, sub.key) = {}) <=> (left = <<>>)
           /\ (left = <<>> /\ PassLog \in DOMAIN files) =>
                  files[PassLog][1] = header
           /\ (left /= <<>> /\ PassLog \in DOMAIN files) =>
                  files[PassLog][1] /= header

\* a pass has posted every comment of a review, deleted its row and put the
\* SUBMITTED header on its log
C4_Witness ==
    /\ sub.pc = "return"
    /\ posted /= <<>>
    /\ MetaRows(review_metadata, sub.key) = {}
    /\ PassLog \in DOMAIN files
    /\ files[PassLog][1] = SubmittedMarker \o " at " \o ToString(now)

\* C4 as stated: the header is prepended and the row deleted if and only if
\* no active comment is left
C4_HeaderIffNoneLeft ==
    sub.pc = "return" =>
        LET left == get_comments(review_comments, sub.key)
            header == SubmittedMarker \o " at " \o ToString(now)
        IN (/\ MetaRows(review_metadata, sub.key) = {}
            /\ PassLog \in DOMAIN files
            /\ files[PassLog][1] = header) <=> (left = <<>>)

\* C5: within one pass every comment of the snapshot is posted exactly once,
\* in get_comments order (file path, then line number), one at a time (every
\* POST made has its outcome recorded before the next), a failure does not
\* stop the later attempts, and the loop ends after exactly as many attempts
\* as the snapshot has comments.
C5_EachCommentPostedOnceInOrder ==
    sub.pc /= "idle" =>
        /\ Len(posted) = sub.index
        /\ Len(posted) <= Len(sub.comments)
        /\ \A i \in 1..Len(posted) : posted[i].id = sub.comments[i].id
        /\ \A i, j \in 1..Len(sub.comments) :
               i < j =>
                   /\ sub.comments[i].id /= sub.comments[j].id
                   /\ \/ PathRank(sub.comments[i].file_path)
                             < PathRank(sub.comments[j].file_path)
                      \/ /\ sub.comments[i].file_path = sub.comments[j].file_path
                         /\ sub.comments[i].line_number <= sub.comments[j].line_number
        /\ Len(sub.succeeded_ids) + Len(sub.errors) = Len(posted)
        /\ sub.succeeded = Len(sub.succeeded_ids) /\ sub.failed = Len(sub.errors)
        /\ sub.pc /= "post" => Len(posted) = Len(sub.comments)

\* the loop is over: the first comment of the snapshot failed and the second,
\* of another file, was posted after it
C5_Witness ==
    /\ sub.pc = "sweep"
    /\ Len(posted) = 2
    /\ posted[1].outcome = "rejected" /\ posted[2].outcome = "ok"
    /\ posted[1].payload.path = "a.rs" /\ posted[2].payload.path = "b.rs"

\* the log file of a metadata row
LogOf(m) ==
    get_log_path(m.owner, m.repo, m.pr_number, m.log_file_index, m.local_folder)

\* the log entry of a soft-deleted comment: its label and body after the prefix
DeletedEntry(c) ==
    "    DELETED - "
        \o (IF c.line_number = 0 THEN "Overall"
            ELSE "Line " \o ToString(c.line_number)
                     \o (IF c.side = "LEFT" THEN " (ORIGINAL)" ELSE ""))
        \o ": " \o c.body

\* C6: after delete_comment(id) succeeds on an active comment, get_comments
\* for the owning review does not return id, the row is retained with its
\* deleted flag set, and the rewritten log file still holds the comment's
\* entry with its body, prefixed with "DELETED - ".
C6_SoftDeleteKeepsRowAndLogEntry ==
    [][(Returns("delete_comment") /\ ret'.ok) =>
          \A c \in review_comments :
              (c.id = ret'.arg.comment_id /\ ~c.deleted) =>
                  /\ \A a \in review_comments' :
                         (KeyOf(a) = KeyOf(c) /\ ~a.deleted) => a.id /= c.id
                  /\ [c EXCEPT !.deleted = TRUE] \in review_comments'
                  /\ \E m \in MetaRows(review_metadata', KeyOf(c)) :
                         /\ LogOf(m) \in DOMAIN files'
                         /\ \E i \in 1..Len(files'[LogOf(m)]) :
                                files'[LogOf(m)][i] = DeletedEntry(c)]_vars

\* the one comment of a review, added by the first command, has just been
\* soft-deleted by the second
C6_Witness ==
    /\ ret.op = "delete_comment" /\ ret.at = now /\ ret.ok
    /\ now = 2 /\ next_rowid = 2
    /\ \E c \in review_comments : c.id = ret.arg.comment_id /\ c.deleted

\* the step is the sweep hard-deleting the next posted comment
SweepDeletes == sub.pc = "sweep" /\ sub.to_delete /= <<>> /\ sub'.pc = "sweep"

\* C7: delete_comment_preserve_log(id) removes the comment row, so that
\* get_comments excludes id, leaves every log file as it was (no rewrite), and
\* leaves the metadata rows and every other comment row unchanged.
C7_HardDeleteLeavesLogAndOthers ==
    [][SweepDeletes =>
          LET id == Head(sub.to_delete)
          IN /\ \E c \in review_comments : c.id = id
             /\ review_comments' = {c \in review_comments : c.id /= id}
             /\ \A k \in Keys :
                    \A i \in 1..Len(get_comments(review_comments', k)) :
                        get_comments(review_comments', k)[i].id /= id
             /\ files' = files
             /\ review_metadata' = review_metadata]_vars

\* the sweep has hard-deleted a posted comment, whose entry is in the log as
\* written before the pass, and another comment row is left
C7_Witness ==
    /\ sub.pc = "sweep"
    /\ Len(sub.to_delete) < Len(sub.succeeded_ids)
    /\ review_comments /= {}
    /\ sent /= {}
    /\ \A e \in sent :
           /\ e.file \in DOMAIN files
           /\ \E i \in 1..Len(files[e.file]) : files[e.file][i] = e.line

\* C8: once a comment has been accepted by the remote and hard-deleted, the
\* log file of its review contains the comment's entry in every later state.
C8_SentEntryStaysInLog ==
    \A e \in sent :
        /\ e.file \in DOMAIN files
        /\ \E i \in 1..Len(files[e.file]) : files[e.file][i] = e.line

\* the steps in which a terminal operation succeeds on a key whose row exists:
\* abandon_review and clear_review as commands, mark_review_submitted as the
\* step of a pass
TerminalStep(op) ==
    IF op = "mark_review_submitted"
    THEN sub.pc = "mark" /\ sub'.pc = "return"
    ELSE Returns(op) /\ ret'.ok /\ MetaRows(review_metadata, ret'.arg.key) /= {}

TerminalKey(op) == IF op = "mark_review_submitted" THEN sub.key ELSE ret'.arg.key

TerminalMarker(op) ==
    IF op = "abandon_review" THEN "# REVIEW ABANDONED at "
    ELSE IF op = "clear_review" THEN "# REVIEW DELETED (NOT SUBMITTED TO GITHUB) at "
    ELSE "# REVIEW SUBMITTED TO GITHUB at "

TerminalOps == {"abandon_review", "clear_review", "mark_review_submitted"}

\* C9 (amended): each of abandon_review, clear_review and mark_review_submitted,
\* when it succeeds on a key whose metadata row exists, leaves no metadata row
\* for the key; if the log file of the review exists, its first line is then
\* the respective marker and the previous content follows the three header
\* lines (nothing follows when the old content could not be read); if the
\* review has no log file, none is created and no header is written.
C9_TerminalOperationFreezesLog ==
    [][\A op \in TerminalOps :
          TerminalStep(op) =>
              LET k == TerminalKey(op)
                  m == Unwrap(get_review_metadata(review_metadata, k))
              IN /\ MetaRows(review_metadata', k) = {}
                 /\ LogOf(m) \in DOMAIN files =>
                        /\ LogOf(m) \in DOMAIN files'
                        /\ files'[LogOf(m)][1] = TerminalMarker(op) \o ToString(now')
                        /\ \/ SubSeq(files'[LogOf(m)], 4, Len(files'[LogOf(m)]))
                                  = files[LogOf(m)]
                           \/ Len(files'[LogOf(m)]) = 3
                 /\ LogOf(m) \notin DOMAIN files => files' = files]_vars

\* a review with a logged comment has just been abandoned: its row is gone and
\* its log starts with the ABANDONED header, the rendering following it
C9_Witness ==
    /\ ret.op = "abandon_review" /\ ret.at = now /\ ret.ok
    /\ MetaRows(review_metadata, ret.arg.key) = {}
    /\ "o-r-1.log" \in DOMAIN files
    /\ files["o-r-1.log"][1] = "# REVIEW ABANDONED at " \o ToString(now)
    /\ Len(files["o-r-1.log"]) > 3
    /\ files["o-r-1.log"][4] = "# Review for PR #1"

\* C9 as stated: every terminal operation on an existing row leaves a log file
\* whose first line is the marker, the previous content following the header
C9_TerminalOperationLeavesLog ==
    [][\A op \in TerminalOps :
          TerminalStep(op) =>
              LET k == TerminalKey(op)
                  m == Unwrap(get_review_metadata(review_metadata, k))
              IN /\ MetaRows(review_metadata', k) = {}
                 /\ LogOf(m) \in DOMAIN files'
                 /\ files'[LogOf(m)][1] = TerminalMarker(op) \o ToString(now')
                 /\ LogOf(m) \in DOMAIN files =>
                        SubSeq(files'[LogOf(m)], 4, Len(files'[LogOf(m)]))
                            = files[LogOf(m)]]_vars

\* the step creates the metadata row of the key
CreatesRow(k) ==
    MetaRows(review_metadata, k) = {} /\ MetaRows(review_metadata', k) /= {}

\* C10 (amended): each newly created metadata row of a key gets a
\* log_file_index that is no smaller than the index of any earlier row of the
\* key with the same file name base, and strictly greater than the index of
\* every such row whose log file exists (a row that never had a log file
\* leaves its index free for the next row).
C10_IndexSkipsExistingLogs ==
    [][\A k \in Keys :
          CreatesRow(k) =>
              LET m == Unwrap(get_review_metadata(review_metadata', k))
                  base == LogBase(m.owner, m.repo, m.pr_number, m.local_folder)
              IN \A a \in assigned[k] :
                     a.base = base =>
                         /\ m.log_file_index >= a.index
                         /\ LogName(base, a.index) \in DOMAIN files =>
                                m.log_file_index > a.index]_vars

\* the second row of a key, created after the first was abandoned with a log
\* file, has index 1
C10_Witness ==
    \E k \in Keys :
        /\ \E m \in MetaRows(review_metadata, k) : m.log_file_index = 1
        /\ \E a \in assigned[k] : a.index = 0
        /\ LogName(LogBase(k.owner, k.repo, k.pr_number, None), 0) \in DOMAIN files

\* C10 as stated: the index of a new row is strictly greater than the index of
\* every earlier row of the key
C10_IndexStrictlyIncreases ==
    [][\A k \in Keys :
          CreatesRow(k) =>
              LET m == Unwrap(get_review_metadata(review_metadata', k))
              IN \A a \in assigned[k] : m.log_file_index > a.index]_vars

\* the content of a log file starts with the header of a terminal operation
IsFrozen(content) ==
    /\ content /= <<>>
    /\ \E marker \in {AbandonedMarker, SubmittedMarker, DeletedMarker}, t \in 1..now :
           content[1] = marker \o " at " \o ToString(t)

\* C11: a log file frozen by a terminal operation is never written again: no
\* step changes the content of a file that starts with a terminal header, so
\* every later log write of the key goes to another path.
C11_FrozenLogNeverOverwritten ==
    [][\A f \in DOMAIN files :
          IsFrozen(files[f]) => (f \in DOMAIN files' /\ files'[f] = files[f])]_vars

\* the log entry of an active comment: its label and body
ActiveEntry(c) ==
    "    "
        \o (IF c.line_number = 0 THEN "Overall"
            ELSE "Line " \o ToString(c.line_number)
                     \o (IF c.side = "LEFT" THEN " (ORIGINAL)" ELSE ""))
        \o ": " \o c.body

\* the content has the entry under the heading of the path: no blank line (the
\* start of another file's group) lies between the heading and the entry
RenderedUnder(content, path, entry) ==
    \E i, j \in 1..Len(content) :
        /\ i < j
        /\ content[i] = path \o ":" /\ content[j] = entry
        /\ \A l \in (i + 1)..(j - 1) : content[l] /= ""

\* C12 (amended): update_comment_file_path(key, old, new) renames exactly the
\* active comments of the key whose path is old (N of them): every other row,
\* soft-deleted or of another key, and the metadata rows stay as they are.
\* When N = 0 it returns 0 and nothing changes, no log is written.  When N > 0
\* and the key has a metadata row, it returns N and rewrites the log of the
\* review, and no other file, with the N comments under the new path.  When
\* N > 0 and the key has no metadata row, the rows are renamed all the same
\* but the call returns an error and no log is written.
C12_RenameExactlyActiveOfKey ==
    [][Returns("update_comment_file_path") =>
          LET k == ret'.arg.key
              hit == {c \in review_comments :
                         /\ KeyOf(c) = k /\ ~c.deleted
                         /\ c.file_path = ret'.arg.old_path}
              renamed == {[c EXCEPT !.file_path = ret'.arg.new_path] : c \in hit}
              N == Cardinality(hit)
          IN /\ review_comments' = (review_comments \ hit) \cup renamed
             /\ review_metadata' = review_metadata
             /\ N = 0 => (ret'.ok /\ ret'.val = 0 /\ files' = files)
             /\ ret'.ok <=> (N = 0 \/ MetaRows(review_metadata, k) /= {})
             /\ (N > 0 /\ ret'.ok) =>
                    LET f == LogOf(Unwrap(get_review_metadata(review_metadata, k)))
                    IN /\ ret'.val = N
                       /\ f \in DOMAIN files'
                       /\ \A g \in DOMAIN files' \ {f} :
                              g \in DOMAIN files /\ files'[g] = files[g]
                       /\ \A c \in renamed :
                              RenderedUnder(files'[f], c.file_path, ActiveEntry(c))
             /\ (N > 0 /\ ~ret'.ok) => files' = files]_vars

\* a rename has just moved the one active comment of pull request 1 to b.rs
\* and rewritten its log, while a comment of pull request 2 stays at a.rs
C12_Witness ==
    /\ ret.op = "update_comment_file_path" /\ ret.at = now /\ ret.ok
    /\ ret.arg.key = K1 /\ ret.arg.new_path = "b.rs" /\ ret.val = 1
    /\ \E c \in review_comments : KeyOf(c) = K1 /\ c.file_path = "b.rs"
    /\ \E c \in review_comments : KeyOf(c) = K2 /\ c.file_path = "a.rs"
    /\ RenderedUnder(files["o-r-1.log"], "b.rs", "    Overall: x")

\* C12 as stated: whenever N > 0 the call returns N and the log is rewritten
\* with the N comments under the new path
C12_RenameAlwaysRewritesLog ==
    [][Returns("update_comment_file_path") =>
          LET k == ret'.arg.key
              hit == {c \in review_comments :
                         /\ KeyOf(c) = k /\ ~c.deleted
                         /\ c.file_path = ret'.arg.old_path}
              renamed == {[c EXCEPT !.file_path = ret'.arg.new_path] : c \in hit}
              N == Cardinality(hit)
          IN /\ review_comments' = (review_comments \ hit) \cup renamed
             /\ N = 0 => (ret'.ok /\ ret'.val = 0 /\ files' = files)
             /\ N > 0 =>
                    /\ ret'.ok /\ ret'.val = N
                    /\ \E f \in DOMAIN files' :
                           \A c \in renamed :
                               RenderedUnder(files'[f], c.file_path, ActiveEntry(c))]_vars

\* every line a comment can be rendered as, whatever its label and suffix
EntryShapes ==
    { "    " \o deleted_prefix \o line_label \o side_label \o ": " \o body :
          deleted_prefix \in {"", "DELETED - "},
          line_label \in {"Overall"} \cup {"Line " \o ToString(n) : n \in 0..2},
          side_label \in {"", " (ORIGINAL)"},
          body \in {"x"} \cup CommentBodies }

\* the comment entries of a log, in the order of the file
Entries(content) == SelectSeq(content, LAMBDA l : l \in EntryShapes)

\* the entry the log is to hold for a comment, when the comments whose side
\* is in left_sides get the suffix
Labelled(c, left_sides) ==
    "    "
        \o (IF c.deleted THEN "DELETED - " ELSE "")
        \o (IF c.line_number = 0 THEN "Overall"
            ELSE "Line " \o ToString(c.line_number)
                     \o (IF c.side \in left_sides THEN " (ORIGINAL)" ELSE ""))
        \o ": " \o c.body

\* no line of the content is an entry labelled "Line 0"
NoLineZero(content) ==
    \A i \in 1..Len(content) :
        content[i] \notin
            { "    " \o d \o "Line 0" \o sl \o ": " \o b :
                  d \in {"", "DELETED - "},
                  sl \in {"", " (ORIGINAL)"},
                  b \in {"x"} \cup CommentBodies }

\* a comment command has just rewritten the log
LogRewritten ==
    \E op \in {"add_comment", "update_comment", "delete_comment"} :
        Returns(op) /\ ret'.ok

\* C13 (amended): in the log rendering, every comment with line number 0 is
\* labelled "Overall", never "Line 0", and carries no side suffix whatever
\* side is stored; a comment with line n > 0 is labelled "Line n" and gets the
\* " (ORIGINAL)" suffix exactly when its side equals LEFT ignoring ASCII
\* letter case (LEFT and left alike).  Every log a comment command writes
\* holds, in the order of the query, exactly these entries.
C13_OverallAndOriginalLabels ==
    [][LogRewritten =>
          LET cs == all_comments(review_comments', K1)
              content == files'["o-r-1.log"]
          IN /\ Entries(content)
                    = [i \in 1..Len(cs) |-> Labelled(cs[i], {"LEFT", "left"})]
             /\ NoLineZero(content)]_vars

\* the log holds a file-level comment stored with side LEFT, rendered as
\* "Overall" without suffix, and a comment on line 1 whose side is stored in
\* lower case, rendered with the suffix
C13_Witness ==
    /\ \E c \in review_comments : c.line_number = 0 /\ c.side = "LEFT" /\ ~c.deleted
    /\ \E c \in review_comments : c.line_number = 1 /\ c.side = "left" /\ ~c.deleted
    /\ "o-r-1.log" \in DOMAIN files
    /\ Entries(files["o-r-1.log"]) = <<"    Overall: x", "    Line 1 (ORIGINAL): x">>

\* C13 as stated: the suffix exactly when the stored side is LEFT
C13_SuffixExactlyForLEFT ==
    [][LogRewritten =>
          LET cs == all_comments(review_comments', K1)
              content == files'["o-r-1.log"]
          IN /\ Entries(content) = [i \in 1..Len(cs) |-> Labelled(cs[i], {"LEFT"})]
             /\ NoLineZero(content)]_vars

\* C14: after any sequence of store operations, get_comments(key) returns
\* exactly the comment rows of the key whose deleted flag is not set, each
\* once: no soft-deleted row, no row that is no longer in the table, no row of
\* another key; they are ordered by file path and then by line number.
C14_GetCommentsActiveOfKeyInOrder ==
    \A k \in TwoKeys :
        LET got == get_comments(review_comments, k)
        IN /\ {got[i] : i \in 1..Len(got)}
                  = {c \in review_comments :
                        /\ c.owner = k.owner /\ c.repo = k.repo
                        /\ c.pr_number = k.pr_number /\ ~c.deleted}
           /\ \A i, j \in 1..Len(got) : i < j => got[i] /= got[j]
           /\ \A i \in 1..(Len(got) - 1) :
                  \/ PathRank(got[i].file_path) < PathRank(got[i + 1].file_path)
                  \/ /\ got[i].file_path = got[i + 1].file_path
                     /\ got[i].line_number <= got[i + 1].line_number

\* pull request 1 has the comment on b.rs added before the one on a.rs, and
\* get_comments returns the one on a.rs first
C14_Witness ==
    /\ \E c \in review_comments :
           KeyOf(c) = K1 /\ c.id = 1 /\ c.file_path = "b.rs" /\ ~c.deleted
    /\ Len(get_comments(review_comments, K1)) = 2
    /\ get_comments(review_comments, K1)[1].id = 2
    /\ get_comments(review_comments, K1)[1].file_path = "a.rs"

\* the step is a command addressed at a target that does not exist:
\* update_review_commit on a key without metadata row, update_comment or
\* delete_comment on an id without comment row
MissingTarget ==
    \/ /\ Returns("update_review_commit")
       /\ MetaRows(review_metadata, ret'.arg.key) = {}
    \/ /\ Returns("update_comment") \/ Returns("delete_comment")
       /\ \A c \in review_comments : c.id /= ret'.arg.comment_id

\* C15: an operation addressed at a target that does not exist fails and
\* changes nothing: update_review_commit on a key with no metadata row returns
\* an error and creates no row; update_comment and delete_comment on an id with
\* no comment row return an error; in each case the metadata rows, the comment
\* rows and the log files are the same as before the call.
C15_MissingTargetFailsUnchanged ==
    [][MissingTarget =>
          /\ ~ret'.ok
          /\ review_metadata' = review_metadata
          /\ review_comments' = review_comments
          /\ files' = files
          /\ next_rowid' = next_rowid]_vars

\* update_review_commit has just failed on pull request 2, which has no
\* metadata row, while pull request 1 has a row, a comment and a log
C15_Witness ==
    /\ ret.op = "update_review_commit" /\ ret.at = now /\ ~ret.ok
    /\ ret.arg.key = K2
    /\ MetaRows(review_metadata, K2) = {}
    /\ MetaRows(review_metadata, K1) /= {}
    /\ \E c \in review_comments : KeyOf(c) = K1
    /\ "o-r-1.log" \in DOMAIN files

\* the resolver has been applied: ret.arg is what it was given, ret.val what
\* it returned
Resolved == ret.op = "convert_diff_position_to_line"

IsHeader(line) == line \in {HunkHeader1, HunkHeader2}

\* the starting line a hunk header gives for a side
HeaderStart(line, side) ==
    IF line = HunkHeader1 THEN 1
    ELSE IF side = "LEFT" THEN 10 ELSE 12

\* the line of a diff exists on the side: a context line on both, an addition
\* on the target (RIGHT) side, a deletion on the source (LEFT) side
OnSide(line, side) ==
    \/ line[1] = " "
    \/ line[1] = "+" /\ side = "RIGHT"
    \/ line[1] = "-" /\ side = "LEFT"

\* the indices of the p-th non-header line of the diff (one, or none)
AtPosition(patch, p) ==
    {i \in 1..Len(patch) :
        /\ ~IsHeader(patch[i])
        /\ Cardinality({j \in 1..i : ~IsHeader(patch[j])}) = p}

\* the header of the hunk that encloses line i
Enclosing(patch, i) ==
    CHOOSE h \in 1..i :
        IsHeader(patch[h]) /\ \A j \in (h + 1)..i : ~IsHeader(patch[j])

\* C16: for every unified diff (one or several hunks), position p >= 1 and
\* side, when the p-th non-header line of the diff exists on the requested
\* side, the resolver returns the starting line of the enclosing hunk's header
\* for that side plus the number of lines of that hunk before position p that
\* exist on that side; hunk header lines reset both counters and never consume
\* a position.  For the diff with header -1,3 +1,4 and lines ' line1',
\* ' line2', '+new', ' line3': position 3 target gives 3, position 4 target
\* gives 4, position 2 source gives 2.
C16_PositionResolvesToHunkLine ==
    Resolved =>
        LET patch == ret.arg.patch
            side == ret.arg.side
        IN /\ \A i \in AtPosition(patch, ret.arg.position) :
                  OnSide(patch[i], side) =>
                      LET h == Enclosing(patch, i)
                      IN ret.val =
                             Some(HeaderStart(patch[h], side)
                                  + Cardinality({j \in (h + 1)..(i - 1) :
                                                    OnSide(patch[j], side)}))
           /\ patch = ExampleDiff =>
                  /\ (ret.arg.position = 3 /\ side = "RIGHT") => ret.val = Some(3)
                  /\ (ret.arg.position = 4 /\ side = "RIGHT") => ret.val = Some(4)
                  /\ (ret.arg.position = 2 /\ side = "LEFT") => ret.val = Some(2)

\* position 3 of a patch of two hunks is an addition of the second hunk, after
\* a deletion: on the target side it is line 12, the start of that hunk
C16_Witness ==
    /\ Resolved
    /\ ret.arg.patch
           = <<HunkHeader1, ContextLine, HunkHeader2, DeletionLine, AdditionLine>>
    /\ ret.arg.position = 3 /\ ret.arg.side = "RIGHT"
    /\ ret.val = Some(12)

\* C17: the resolver returns nothing, and never a line number, when the
\* requested position cannot be located on the requested side: position 0, a
\* position greater than the number of non-header lines of the diff, a
\* position that points at a deletion line when the side is target, or at an
\* addition line when the side is source.
C17_UnlocatedPositionGivesNothing ==
    Resolved =>
        LET patch == ret.arg.patch
            at == AtPosition(patch, ret.arg.position)
        IN (\/ ret.arg.position = 0
            \/ ret.arg.position > Cardinality({j \in 1..Len(patch) : ~IsHeader(patch[j])})
            \/ \E i \in at : patch[i][1] = "-" /\ ret.arg.side = "RIGHT"
            \/ \E i \in at : patch[i][1] = "+" /\ ret.arg.side = "LEFT")
           => ret.val = None

\* position 2 of a patch is a deletion followed by further lines, the side is
\* the target side, and the resolver returned nothing
C17_Witness ==
    /\ Resolved
    /\ ret.arg.patch
           = <<HunkHeader1, ContextLine, DeletionLine, AdditionLine>>
    /\ ret.arg.position = 2 /\ ret.arg.side = "RIGHT"
    /\ ret.val = None

\* the step is one POST of the pass
Posts == sub.pc = "post" /\ Len(posted') = Len(posted) + 1

\* C18: in a submission pass, when the review's captured commit id differs
\* from the pull request's current head commit, every comment payload of the
\* pass carries the current head commit id, not the captured one and not the
\* comment's own; when they are equal the captured commit id is used; no step
\* of the pass changes the commit id stored in the metadata row.
C18_PayloadCarriesHeadCommit ==
    [][/\ Posts =>
              LET payload == posted'[Len(posted')].payload
                  captured == sub.metadata.commit_id
              IN /\ sub.head_sha /= captured => payload.commit_id = sub.head_sha
                 /\ sub.head_sha = captured => payload.commit_id = captured
       /\ (sub.pc /= "idle" \/ sub'.pc /= "idle") =>
              \A m \in review_metadata' :
                  \E old \in review_metadata :
                      KeyOf(old) = KeyOf(m) /\ old.commit_id = m.commit_id]_vars

\* a pass on a review captured at c1, while the head is c2, has posted a
\* comment written against c1 with commit id c2, and the row still says c1
C18_Witness ==
    /\ sub.pc /= "idle" /\ posted /= <<>>
    /\ sub.metadata.commit_id = "c1" /\ sub.head_sha = "c2"
    /\ \E c \in review_comments : c.id = posted[1].id /\ c.commit_id = "c1"
    /\ posted[1].payload.commit_id = "c2"
    /\ \E m \in review_metadata : KeyOf(m) = sub.key /\ m.commit_id = "c1"

\* the step is a submission returning before the loop of POSTs
FailsBeforeLoop == sub.pc = "idle" /\ Returns("submit_local_review")

\* C19: a submission that fails before the per-comment loop, because the key
\* has no metadata row ("No pending review found") or because fetching the
\* pull request's current head fails, posts no comment to the remote, deletes
\* no comment, and leaves the metadata rows and log files unchanged.  A
\* submission on a key without metadata row, or whose fetch fails, does fail
\* before the loop.
C19_PreLoopFailureChangesNothing ==
    [][/\ FailsBeforeLoop =>
              /\ ~ret'.ok
              /\ sub'.pc = "idle"
              /\ posted' = posted /\ sent' = sent
              /\ review_comments' = review_comments
              /\ review_metadata' = review_metadata
              /\ files' = files
              /\ MetaRows(review_metadata, ret'.arg.key) = {}
                     => ret'.val = <<"No pending review found">>
       /\ (sub.pc = "idle" /\ sub'.pc = "post") =>
              /\ MetaRows(review_metadata, sub'.key) /= {}
              /\ sub'.head_sha \in Heads]_vars

\* the fetch of the head has just failed for a review that has a metadata
\* row, an active comment and a log
C19_Witness ==
    /\ ret.op = "submit_local_review" /\ ret.at = now /\ ~ret.ok
    /\ ret.val = <<"fetch_failed">>
    /\ sub.pc = "idle"
    /\ MetaRows(review_metadata, ret.arg.key) /= {}
    /\ get_comments(review_comments, ret.arg.key) /= <<>>
    /\ "o-r-1.log" \in DOMAIN files

\* C20: for every active comment of a submission pass that is a threaded
\* reply (its in_reply_to_id is set), the payload posted to the remote
\* includes the reference to its parent comment.
C20_ReplyPayloadNamesParent ==
    [][Posts =>
          LET comment == sub.comments[sub.index + 1]
              payload == posted'[Len(posted')].payload
          IN IsSome(comment.in_reply_to_id) =>
                 /\ "in_reply_to" \in DOMAIN payload
                 /\ payload["in_reply_to"] = Unwrap(comment.in_reply_to_id)]_vars

\* C21: for every comment of a submission pass, the remote payload marks it
\* as a whole-file comment and has no line and no side field exactly when its
\* line number is 0; otherwise the payload has the comment's line number and
\* side and no whole-file mark.
C21_WholeFileMarkIffLineZero ==
    [][Posts =>
          LET comment == sub.comments[sub.index + 1]
              payload == posted'[Len(posted')].payload
          IN /\ posted'[Len(posted')].id = comment.id
             /\ comment.line_number = 0 =>
                    /\ payload.subject_type = Some("file")
                    /\ payload.line = None /\ payload.side = None
             /\ comment.line_number /= 0 =>
                    /\ payload.subject_type = None
                    /\ payload.line = Some(comment.line_number)
                    /\ payload.side = Some(comment.side)]_vars

\* a pass has posted a whole-file comment and a comment on line 1
C21_Witness ==
    /\ Len(posted) = 2
    /\ posted[1].payload.subject_type = Some("file")
    /\ posted[1].payload.line = None
    /\ posted[2].payload.line = Some(1)
    /\ posted[2].payload.side = Some("RIGHT")
    /\ posted[2].payload.subject_type = None

\* the key a returning store mutation worked on, when it succeeded on a review
\* that is open afterwards and (start_review, update_comment_file_path) changed
\* something; the empty set otherwise
MutatedKey ==
    IF ~ret'.ok THEN {}
    ELSE IF Returns("start_review")
    THEN {k \in {ret'.arg.key} :
             /\ MetaRows(review_metadata, k) /= {}
             /\ MetaRows(review_metadata', k) /= MetaRows(review_metadata, k)}
    ELSE IF Returns("update_review_commit") \/ Returns("add_comment")
    THEN {ret'.arg.key}
    ELSE IF Returns("update_comment") \/ Returns("delete_comment")
    THEN {KeyOf(c) : c \in {r \in review_comments : r.id = ret'.arg.comment_id}}
    ELSE IF Returns("update_comment_file_path")
    THEN {k \in {ret'.arg.key} : ret'.val > 0}
    ELSE {}

\* C22: in a sequential execution, after a DraftStore mutation of an open
\* review returns successfully (start_review changing local_folder,
\* update_review_commit, add_comment, update_comment, delete_comment,
\* update_comment_file_path affecting at least one row), the review's log file
\* equals the full rendering of the review's current database state: the
\* header fields, the commit id among them, and every comment row.
C22_LogEqualsRenderingAfterMutation ==
    [][\A k \in MutatedKey :
           \A m \in MetaRows(review_metadata', k) :
               /\ LogOf(m) \in DOMAIN files'
               /\ files'[LogOf(m)] = Render(m, all_comments(review_comments', k), "")]_vars

\* C23: review metadata is created lazily and never duplicated: after a
\* successful start_review or cmd_local_add_comment for a key a metadata row
\* for the key exists, and in every state there is at most one metadata row
\* per (owner, repo, pr) key, so get_all_review_metadata lists each open
\* review exactly once.
C23_OneMetadataRowPerKey ==
    [][/\ ((Returns("start_review") \/ Returns("add_comment")) /\ ret'.ok) =>
              MetaRows(review_metadata', ret'.arg.key) /= {}
       /\ \A k \in TwoKeys :
              LET all == get_all_review_metadata(review_metadata')
                  listed == {i \in 1..Len(all) : KeyOf(all[i]) = k}
              IN /\ Cardinality(MetaRows(review_metadata', k)) <= 1
                 /\ Cardinality(listed) = Cardinality(MetaRows(review_metadata', k))
                 /\ Cardinality(listed) <= 1]_vars

\* both pull requests are under review, pull request 1 after start_review was
\* called for it twice and a comment was added to it
C23_Witness ==
    /\ now >= 4
    /\ ret.op = "start_review" /\ ret.ok /\ ret.arg.key = K1 /\ ret.val.created_at < now - 1
    /\ \E c \in review_comments : KeyOf(c) = K1
    /\ Cardinality(MetaRows(review_metadata, K1)) = 1
    /\ Cardinality(MetaRows(review_metadata, K2)) = 1
    /\ Len(get_all_review_metadata(review_metadata)) = 2

\* the step is a comment mutation, issued while the title fetch fails, whose
\* target exists: add_comment, update_comment or delete_comment of an existing
\* comment, update_comment_file_path that matches an active comment
MutatesWithoutTitle ==
    /\ ret'.arg.title = ""
    /\ \/ Returns("add_comment")
       \/ /\ Returns("update_comment") \/ Returns("delete_comment")
          /\ \E c \in review_comments : c.id = ret'.arg.comment_id
       \/ /\ Returns("update_comment_file_path")
          /\ \E c \in review_comments :
                 /\ KeyOf(c) = ret'.arg.key /\ ~c.deleted
                 /\ c.file_path = ret'.arg.old_path

\* C24: a failure to fetch the pull request title from the remote never fails
\* a mutation: add_comment, update_comment, delete_comment and
\* update_comment_file_path still commit the database change, still rewrite
\* the log, with the title omitted from the header, and return success.
C24_TitleFetchFailureTolerated ==
    [][(\E op \in {"add_comment", "update_comment", "delete_comment",
                   "update_comment_file_path"} : Returns(op))
       /\ MutatesWithoutTitle =>
          /\ ret'.ok
          /\ Returns("add_comment") =>
                 \E c \in review_comments' : c.id = next_rowid /\ ret'.val = c
          /\ Returns("update_comment") =>
                 \E c \in review_comments' :
                     c.id = ret'.arg.comment_id /\ c.body \in CommentBodies
          /\ Returns("delete_comment") =>
                 \E c \in review_comments' : c.id = ret'.arg.comment_id /\ c.deleted
          /\ Returns("update_comment_file_path") =>
                 /\ ret'.val > 0
                 /\ \A c \in review_comments' :
                        ~c.deleted => c.file_path /= ret'.arg.old_path
          /\ files'["o-r-1.log"]
                 = Render(Unwrap(get_review_metadata(review_metadata', K1)),
                          all_comments(review_comments', K1), "")
          /\ files'["o-r-1.log"][1] = "# Review for PR #1"]_vars

\* an update of a comment has just returned successfully while the title fetch
\* failed, and the log it wrote has the header without title
C24_Witness ==
    /\ ret.op = "update_comment" /\ ret.at = now /\ ret.ok
    /\ ret.arg.title = ""
    /\ now >= 2
    /\ files["o-r-1.log"][1] = "# Review for PR #1"
    /\ \E c \in review_comments : c.body = "y"

C26_UpdateCommitChangesOnlyCommit ==
    [][(Returns("update_review_commit") /\ ret'.ok) =>
          \E old \in MetaRows(review_metadata, ret'.arg.key) :
              LET new == [old EXCEPT !.commit_id = ret'.arg.commit_id]
              IN /\ review_metadata' = (review_metadata \ {old}) \cup {new}
                 /\ ret'.val = new
                 /\ new.created_at = old.created_at /\ new.body = old.body
                 /\ new.local_folder = old.local_folder
                 /\ new.log_file_index = old.log_file_index
                 /\ review_comments' = review_comments
                 /\ next_rowid' = next_rowid]_vars

\* the commit of pull request 1 has just been updated from c1 to c2; its
\* comment still carries c1, and the row of pull request 2 still says c1
C26_Witness ==
    /\ ret.op = "update_review_commit" /\ ret.at = now /\ ret.ok
    /\ ret.arg.key = K1 /\ ret.val.commit_id = "c2"
    /\ ret.val.created_at < now
    /\ ret.val \in review_metadata
    /\ \E c \in review_comments : KeyOf(c) = K1 /\ c.commit_id = "c1"
    /\ \E m \in review_metadata : KeyOf(m) = K2 /\ m.commit_id = "c1"

\* C29: no unsent comment is lost by finalization: under any interleaving of
\* a submission pass with add_comment calls on the same review, a comment
\* whose add_comment returned success is, after the pass, either still
\* returned by get_comments or was posted to the remote by the pass.  Stated
\* on every step: an active comment that the step removes from get_comments
\* was accepted by the remote in the current pass.
C29_NoUnsentCommentLost ==
    [][\A c \in review_comments :
          (/\ ~c.deleted
           /\ \A i \in 1..Len(get_comments(review_comments', KeyOf(c))) :
                  get_comments(review_comments', KeyOf(c))[i].id /= c.id)
          => \E i \in 1..Len(posted) :
                 posted[i].id = c.id /\ posted[i].outcome = "ok"]_vars

\* C27: once a terminal operation has put its header before the log and
\* deleted the metadata row, nothing writes that log file again, under any
\* interleaving: no log write of a mutation in flight lands on a file that
\* begins with a terminal header.
C27_NoLogWriteAfterHeader ==
    [][\A p \in Callers :
          (calls[p].pc = "write" /\ calls'[p].pc = "idle")
          => ~(/\ calls[p].log_path \in DOMAIN files
               /\ IsFrozen(files[calls[p].log_path]))]_vars

\* C28: under any interleaving of concurrent mutations of one open review,
\* once all of them have returned successfully and none is in flight, the log
\* file equals the rendering of the current database state.
C28_LogEqualsRenderingWhenQuiet ==
    (\A p \in Callers : calls[p] = Returned(TRUE))
    => \A k \in Keys :
          IsSome(get_review_metadata(review_metadata, k))
          => LET m == Unwrap(get_review_metadata(review_metadata, k))
                 log_path == get_log_path(k.owner, k.repo, k.pr_number,
                                          m.log_file_index, m.local_folder)
             IN /\ log_path \in DOMAIN files
                /\ files[log_path] =
                       Render(m, all_comments(review_comments, k), "")

\* the ids of the active comments of all reviews
ActiveIds == {c.id : c \in {r \in review_comments : ~r.deleted}}

\* the ids the pass in flight has posted so far
PostedIds == {posted[i].id : i \in 1..Len(posted)}

\* C30: across submission passes on one review run one after the other with
\* no database error, a pass posts only comments that are active, no comment
\* is accepted by the remote more than once, and every accepted comment is
\* absent from get_comments from the end of its pass on.
C30_AcceptedOnceAndGone ==
    /\ [](\A id \in accepted :
              (sub.pc = "idle" \/ id \notin PostedIds) => id \notin ActiveIds)
    /\ [][Posts => LET p == posted'[Len(posted')]
                   IN /\ p.id \in ActiveIds
                      /\ p.id \notin accepted
                      /\ p.id \notin PostedIds]_vars

\* a later pass has a comment accepted that an earlier pass failed to post,
\* after the earlier pass had another comment accepted
C30_Witness ==
    /\ sub.pc = "post"
    /\ \E id \in accepted : id \notin PostedIds
    /\ \E i \in 1..Len(posted) : posted[i].outcome = "ok"
    /\ Cardinality(accepted) = 2

\* the command that returns in this step failed in fs::write of write_log
LogWriteFails(op) == Returns(op) /\ ~ret'.ok /\ ret'.val = "io error"

SweepFails == sub.pc = "sweep" /\ sub'.pc = "idle"

\* C32: a database error during the finalization sweep of a pass (a
\* delete_comment_preserve_log call or the re-query fails) ends the submission
\* at once with the error: the review is not marked submitted, nothing the
\* remote accepted is undone, and the succeeded comments not yet hard-deleted
\* remain active.  A pass gets past the sweep only with every succeeded
\* comment deleted.
C32_SweepErrorAbortsPass ==
    /\ [][SweepFails =>
              /\ ret'.op = "submit_local_review" /\ ~ret'.ok
              /\ ret'.val = <<"database error">>
              /\ review_metadata' = review_metadata
              /\ MetaRows(review_metadata', sub.key) /= {}
              /\ review_comments' = review_comments
              /\ files' = files
              /\ accepted' = accepted /\ posted' = posted
              /\ \A i \in 1..Len(sub.to_delete) :
                     sub.to_delete[i] \in ActiveIds']_vars
    /\ [](sub.pc \in {"mark", "return"} =>
              \A i \in 1..Len(sub.succeeded_ids) :
                  \A c \in review_comments : c.id /= sub.succeeded_ids[i])

\* a pass had two comments accepted, deleted the first and failed on the
\* DELETE of the second, which is still active
C32_Witness ==
    /\ ret.op = "submit_local_review" /\ ~ret.ok
    /\ ret.val = <<"database error">>
    /\ sub.pc = "idle"
    /\ Cardinality(accepted) = 2
    /\ Cardinality(accepted \cap ActiveIds) = 1
    /\ MetaRows(review_metadata, ret.arg.key) /= {}

\* the comment rows of a key, active and soft-deleted
RowsOf(comments, k) == {c \in comments : KeyOf(c) = k}

\* a key without metadata row has no comment row
NoOrphanRow ==
    \A k \in Keys :
        MetaRows(review_metadata, k) = {} => RowsOf(review_comments, k) = {}

\* the step that creates the row of a key leaves the key no comment but the
\* one it adds
StartsEmpty ==
    \A k \in Keys :
        CreatesRow(k) => \A c \in RowsOf(review_comments', k) : c.id = next_rowid

\* C33 (where the build enforces foreign keys): deleting a review's metadata
\* row by abandon_review, clear_review or mark_review_submitted removes every
\* comment row of the key, active and soft-deleted: afterwards get_comments of
\* the key is empty and a review started later for the key begins with no
\* comment of an earlier cycle.
C33_CascadeWhereEnforced ==
    /\ [](foreign_keys => NoOrphanRow)
    /\ [][foreign_keys => StartsEmpty]_vars

\* abandon_review has just removed a review with an active and a soft-deleted
\* comment, and both rows went with it
C33_Witness ==
    /\ foreign_keys
    /\ ret.op = "abandon_review" /\ ret.at = now /\ ret.ok
    /\ review_metadata = {} /\ review_comments = {}
    /\ next_rowid = 3 /\ accepted = {}
    /\ \E f \in DOMAIN files : \E i \in 1..Len(files[f]) :
           files[f][i] = "    DELETED - Overall: x"

\* C33 as stated: on every build the comment rows go with the metadata row
C33_CommentsGoWithReview == []NoOrphanRow /\ [][StartsEmpty]_vars

\* C34 (pull requests of one repository): in every reachable state two open
\* reviews of different pull requests of the same remote repository have
\* different log file paths.
C34_PathsDifferWithinRepository ==
    \A m1 \in review_metadata, m2 \in review_metadata :
        (/\ KeyOf(m1) /= KeyOf(m2)
         /\ m1.owner = m2.owner /\ m1.repo = m2.repo
         /\ ~is_local_folder(m1.owner, m1.repo))
        => LogOf(m1) /= LogOf(m2)

\* pull requests 1 and 2 of a/b-c are open, each with its own log file
C34_Witness ==
    /\ \E m \in review_metadata : KeyOf(m) = PB /\ LogOf(m) \in DOMAIN files
    /\ \E m \in review_metadata : KeyOf(m) = PB2 /\ LogOf(m) \in DOMAIN files

\* C34 as stated: in every reachable state two open reviews with different
\* keys have different log file paths, in remote mode and in local folder
\* mode.
C34_PathsDifferAcrossKeys ==
    \A m1 \in review_metadata, m2 \in review_metadata :
        KeyOf(m1) /= KeyOf(m2) => LogOf(m1) /= LogOf(m2)

\* a comment command has just written the log of pull request 1
LogWritten ==
    \/ LogRewritten
    \/ Returns("update_comment_file_path") /\ ret'.ok /\ ret'.val > 0

\* the lines of the content that are the heading of the path
HeadingsOf(content, path) == {i \in 1..Len(content) : content[i] = path \o ":"}

\* the lines of the content that give a count of comments
TotalsOf(content) ==
    LET counts == {"# Total Comments: " \o ToString(n) : n \in 0..(MaxComments + 1)}
    IN {i \in 1..Len(content) : content[i] \in counts}

\* C35: every log rendering contains each comment row of the review, active
\* and soft-deleted, exactly once, in (file path, line number) order; the
\* heading of each distinct file path appears exactly once, after a blank
\* line and right before the entries of its group; and the Total Comments
\* count of the header is the number of non-deleted comments, the length of
\* get_comments at the time of the render.  After the count and a blank line
\* the log holds nothing but the groups: a blank line, the heading and one
\* line per row.
C35_RenderListsEveryRowOnce ==
    [][LogWritten =>
          LET cs == all_comments(review_comments', K1)
              active == Len(get_comments(review_comments', K1))
              content ==
                  files'[LogOf(Unwrap(get_review_metadata(review_metadata', K1)))]
              totals == TotalsOf(content)
          IN /\ Cardinality(totals) = 1
             /\ \A t \in totals :
                    /\ content[t] = "# Total Comments: " \o ToString(active)
                    /\ Len(content) =
                           t + 1 + Len(cs)
                             + 2 * Cardinality({cs[i].file_path : i \in 1..Len(cs)})
             /\ \A i \in 1..Len(cs), j \in 1..Len(cs) :
                    i < j =>
                        \/ PathRank(cs[i].file_path) < PathRank(cs[j].file_path)
                        \/ /\ cs[i].file_path = cs[j].file_path
                           /\ cs[i].line_number <= cs[j].line_number
             /\ {cs[i].id : i \in 1..Len(cs)}
                    = {c.id : c \in RowsOf(review_comments', K1)}
             /\ \A p \in Paths :
                    LET group == SelectSeq(cs, LAMBDA c : c.file_path = p)
                    IN IF group = <<>> THEN HeadingsOf(content, p) = {}
                       ELSE /\ Cardinality(HeadingsOf(content, p)) = 1
                            /\ LET h == CHOOSE i \in HeadingsOf(content, p) : TRUE
                               IN /\ content[h - 1] = ""
                                  /\ h + Len(group) <= Len(content)
                                  /\ \A i \in 1..Len(group) :
                                         content[h + i]
                                             = Labelled(group[i], {"LEFT", "left"})
             /\ active <= MaxComments + 1]_vars

\* the log written by delete_comment shows the active comment of a.rs and the
\* soft-deleted comment of b.rs, each under its heading, and counts one
C35_Witness ==
    /\ ret.op = "delete_comment" /\ ret.at = now /\ ret.ok
    /\ "o-r-1.log" \in DOMAIN files
    /\ Entries(files["o-r-1.log"]) = <<"    Overall: x", "    DELETED - Line 1: x">>
    /\ HeadingsOf(files["o-r-1.log"], "a.rs") /= {}
    /\ HeadingsOf(files["o-r-1.log"], "b.rs") /= {}
    /\ \E i \in TotalsOf(files["o-r-1.log"]) :
           files["o-r-1.log"][i] = "# Total Comments: 1"

\* C36: deletion is irreversible and ids are never reused: an id that has been
\* given to a comment and is excluded from get_comments, by soft delete or by
\* hard delete, is excluded after every step, and the ids in use are below
\* the AUTOINCREMENT counter, which never goes back.
C36_DeletedIdNeverReturns ==
    /\ [][/\ \A id \in 1..(next_rowid - 1) :
                 id \notin ActiveIds => id \notin ActiveIds'
          /\ next_rowid' >= next_rowid]_vars
    /\ [](\A c \in review_comments : c.id < next_rowid)

\* update_comment has just changed the body of a soft-deleted comment, which
\* stays deleted
C36_Witness ==
    /\ ret.op = "update_comment" /\ ret.at = now /\ ret.ok
    /\ \E c \in review_comments :
           c.id = ret.arg.comment_id /\ c.deleted /\ c.body = "y"

\* the commands that are given a key
KeyedOps ==
    {"start_review", "update_review_commit", "add_comment",
     "update_comment_file_path", "abandon_review", "clear_review",
     "submit_local_review"}

\* the step leaves the metadata row and the comment rows of every key but k
\* as they are
OtherKeysUntouched(k) ==
    \A k2 \in TwoKeys \ {k} :
        /\ MetaRows(review_metadata', k2) = MetaRows(review_metadata, k2)
        /\ RowsOf(review_comments', k2) = RowsOf(review_comments, k2)

\* the step leaves the metadata and every comment row but the one with the id
\* as they are
OtherRowsUntouched(id) ==
    /\ review_metadata' = review_metadata
    /\ {c \in review_comments' : c.id /= id} = {c \in review_comments : c.id /= id}

\* C37: reviews are isolated in the database: no store operation given key k
\* and no step of a submission pass for k changes the metadata row or a
\* comment row of another key; update_comment and delete_comment change only
\* the comment row with the given id.
C37_ReviewsIsolated ==
    [][/\ \A op \in KeyedOps : Returns(op) => OtherKeysUntouched(ret'.arg.key)
       /\ sub.pc /= "idle" => OtherKeysUntouched(sub.key)
       /\ sub'.pc /= "idle" => OtherKeysUntouched(sub'.key)
       /\ Returns("update_comment") \/ Returns("delete_comment")
              => OtherRowsUntouched(ret'.arg.comment_id)]_vars

\* a rename for one review has just changed a row while the other review has
\* an active comment on the same old path
C37_Witness ==
    /\ ret.op = "update_comment_file_path" /\ ret.at = now /\ ret.ok
    /\ ret.val = 1
    /\ \E k \in TwoKeys \ {ret.arg.key} :
           \E c \in RowsOf(review_comments, k) :
               c.file_path = ret.arg.old_path /\ ~c.deleted

\* a submission of a review without active comment is in flight
EmptyPass == sub.pc /= "idle" /\ sub.comments = <<>>

\* C38: a submission pass on a review that has a metadata row and no active
\* comment posts nothing to the remote, marks the review submitted (its
\* metadata row is deleted) and returns success.
C38_EmptyPassFinalizes ==
    /\ [](EmptyPass => posted = <<>> /\ sub.pc \in {"post", "sweep", "mark", "return"})
    /\ [][EmptyPass =>
            /\ sub'.pc = "idle" => PassReturns
            /\ PassReturns =>
                 /\ ret' = SubmitReturn(sub.key, now, TRUE, None)
                 /\ MetaRows(review_metadata', sub.key) = {}
                 /\ accepted' = accepted]_vars

\* the submission of a review without active comment has just returned Ok,
\* the review had a row when it started and has none now
C38_Witness ==
    /\ ret.op = "submit_local_review" /\ ret.ok
    /\ sub.pc = "idle"
    /\ accepted = {}
    /\ MetaRows(review_metadata, ret.arg.key) = {}
    /\ \E name \in DOMAIN files : IsFrozen(files[name])

\* the ids of the comments in the snapshot of the pass in flight
SnapshotIds(p) == {p.comments[i].id : i \in 1..Len(p.comments)}

\* C39: a comment soft-deleted before a submission pass loaded its snapshot of
\* active comments is never posted, by that pass or a later one: a snapshot
\* holds only ids that get_comments returns, a pass posts only ids of its
\* snapshot, and an id that get_comments does not return is never returned
\* again.
C39_SoftDeletedNeverPosted ==
    [][/\ sub.pc = "idle" /\ sub'.pc = "post" => SnapshotIds(sub') \subseteq ActiveIds
       /\ Posts => /\ posted'[Len(posted')].id \in SnapshotIds(sub)
                   /\ posted'[Len(posted')].id \in ActiveIds
       /\ \A id \in 1..(next_rowid - 1) :
              id \notin ActiveIds => id \notin ActiveIds']_vars

\* a pass has posted the one active comment of a review that also has a
\* soft-deleted comment, which was not posted
C39_Witness ==
    /\ sub.pc = "post"
    /\ Len(posted) = 1 /\ Len(sub.comments) = 1
    /\ \E c \in review_comments :
           /\ KeyOf(c) = sub.key /\ c.deleted
           /\ c.id \notin PostedIds

\* the store as the variables hold it after the step
StAfter ==
    [meta |-> review_metadata', comments |-> review_comments',
     rowid |-> next_rowid', files |-> files', fk |-> foreign_keys']

\* C40: abandon_review, clear_review and mark_review_submitted called for a
\* key that has no metadata row return success and change nothing: no second
\* header is put on the frozen log, and the metadata and comments of every
\* review are as before.
C40_TerminalWithoutRowIsNoOp ==
    /\ [](\A k \in TwoKeys :
             MetaRows(review_metadata, k) = {} =>
                 \A rd \in BOOLEAN, wr \in BOOLEAN :
                     /\ abandon_review(St, k, Now, rd, wr) = Ok(St, None)
                     /\ clear_review(St, k, Now, rd, wr) = Ok(St, None)
                     /\ mark_review_submitted(St, k, Now, rd, wr) = Ok(St, None))
    /\ [][\A op \in {"abandon_review", "clear_review"} :
             Returns(op) /\ MetaRows(review_metadata, ret'.arg.key) = {} =>
                 /\ ret'.ok /\ ret'.val = None
                 /\ StAfter = St]_vars

\* abandon_review has just returned Ok for the second time in a row on the
\* review of pull request 1, whose log carries the header of the first call
C40_Witness ==
    /\ now = 3
    /\ ret.op = "abandon_review" /\ ret.at = now /\ ret.ok
    /\ ret.arg.key = K1
    /\ review_metadata = {}
    /\ "o-r-1.log" \in DOMAIN files
    /\ files["o-r-1.log"][1] = AbandonedMarker \o " at 2"
    /\ \A i \in 2..Len(files["o-r-1.log"]) :
           files["o-r-1.log"][i] /= AbandonedMarker \o " at 3"

====
